---- MODULE Spec2Model ----
(***************************************************************************)
(* qa-director: the role registry (core/config.ts), the environment files  *)
(* (core/files.ts), credential detection (core/env-detection.ts) and the   *)
(* login and eject commands (cli/commands).                                *)
(*                                                                         *)
(* Text is a sequence of one-character strings, so that substring tests,   *)
(* case conversion and regular-expression tests are computed character by  *)
(* character as the code computes them.                                    *)
(***************************************************************************)
EXTENDS Naturals, Sequences, FiniteSets

VARIABLES
  configFile,   \* qa-director.config.ts on disk: NoFile or a configuration
  moduleCache,  \* the running process's ES module map entry for config.mjs
  calls,        \* the last API calls of the running process, newest last
  nCalls,       \* number of API calls made so far
  envFile,      \* the env file (config.envDir): NoFile or its text
  exampleFile,  \* its .example companion: NoFile or its text
  storageFiles, \* credential-state files on disk: a set of [path, session]
  roleFolders,  \* role test folders on disk: a set of paths
  setupFile,    \* the auth setup script: NoFile or the set of roles set up in it
  pwConfigFile, \* the Playwright config: NoFile or the set of role projects in it
  cmd,          \* the last CLI command and what it did
  nCmds,        \* number of CLI commands run so far
  detectIn,     \* arguments of detectEnvVars: the transcript and the role
  detectOut,    \* result of detectEnvVars, or NotRun
  processedCode,\* result of replaceWithEnvVars on that transcript, or NotRun
  fnIn,         \* arguments of one call of generateEnvVarName or deduplicateEnvVars
  fnOut,        \* result of that call, or NotRun
  procs,        \* two invocations running at once: each one's step and data
  tempFile      \* node_modules/.qa-director/config.mjs: NoFile or a module

vars == <<configFile, moduleCache, calls, nCalls, envFile, exampleFile,
          storageFiles, roleFolders, setupFile, pwConfigFile, cmd, nCmds,
          detectIn, detectOut, processedCode, fnIn, fnOut, procs, tempFile>>

apiVars == <<configFile, moduleCache, calls, nCalls, envFile, exampleFile>>
cliVars == <<storageFiles, roleFolders, setupFile, pwConfigFile, cmd, nCmds>>
detectVars == <<detectIn, detectOut, processedCode, fnIn, fnOut>>
procVars == <<procs, tempFile>>

\* A file, a module or a value that may be missing is <<>> when it is missing
\* and <<x>> when it is x.
NoFile == <<>>
NoModule == <<>>
Null == <<>>
Some(x) == <<x>>
ValueOf(m) == m[1]

-----------------------------------------------------------------------------
(* Text helpers: String.prototype.includes, startsWith, toLowerCase,       *)
(* toUpperCase and the character classes the regular expressions use.      *)

UpperLetters == <<"A", "B", "C", "D", "E", "F", "G", "H", "I", "J", "K", "L", "M",
                  "N", "O", "P", "Q", "R", "S", "T", "U", "V", "W", "X", "Y", "Z">>
LowerLetters == <<"a", "b", "c", "d", "e", "f", "g", "h", "i", "j", "k", "l", "m",
                  "n", "o", "p", "q", "r", "s", "t", "u", "v", "w", "x", "y", "z">>
Digits == {"0", "1", "2", "3", "4", "5", "6", "7", "8", "9"}

Range(s) == {s[i] : i \in DOMAIN s}

IsLetter(c) == c \in Range(UpperLetters) \cup Range(LowerLetters)
IsAlnum(c) == IsLetter(c) \/ c \in Digits

LowerChar(c) ==
  IF c \in Range(UpperLetters)
  THEN LowerLetters[CHOOSE i \in DOMAIN UpperLetters : UpperLetters[i] = c]
  ELSE c

UpperChar(c) ==
  IF c \in Range(LowerLetters)
  THEN UpperLetters[CHOOSE i \in DOMAIN LowerLetters : LowerLetters[i] = c]
  ELSE c

ToLowerCase(s) == [i \in DOMAIN s |-> LowerChar(s[i])]
ToUpperCase(s) == [i \in DOMAIN s |-> UpperChar(s[i])]

StartsWith(s, p) == Len(p) <= Len(s) /\ SubSeq(s, 1, Len(p)) = p

Includes(s, sub) ==
  \E i \in 0..Len(s) : i + Len(sub) <= Len(s) /\ SubSeq(s, i + 1, i + Len(sub)) = sub

IsPrefix(p, s) == StartsWith(s, p)

-----------------------------------------------------------------------------
(* Role names, auth directories and the credential-state path of a role.   *)

\* Role names and paths are kept as strings; a role name is spelled out
\* where the code looks at its characters.
RoleUser == "user"
RoleAdmin == "admin"
RoleQa == "qa"
RoleNames == {RoleUser, RoleAdmin, RoleQa}

RoleSpelling(role) ==
  CASE role = "user" -> <<"u", "s", "e", "r">>
    [] role = "admin" -> <<"a", "d", "m", "i", "n">>
    [] role = "qa" -> <<"q", "a">>

AuthDirA == "pw/.auth"
AuthDirB == ".auth"
AuthDirs == {AuthDirA, AuthDirB}

\* path.join(config.authDir, `storageState.${role}.json`)
StoragePathOf(authDir, role) == authDir \o "/storageState." \o role \o ".json"

\* Role: envVars <<>> and folder Null stand for the optional fields left out.
MkRole(name, storagePath, envVars, folder) ==
  [name |-> name, storagePath |-> storagePath, envVars |-> envVars, folder |-> folder]

\* QADirectorConfig: the fields the modelled operations read or write.
MkConfig(roles, authDir, ghEnabled) ==
  [roles |-> roles, authDir |-> authDir, ghEnabled |-> ghEnabled]

\* The configuration init writes: no roles yet.
InitialConfig(authDir, ghEnabled) == MkConfig(<<>>, authDir, ghEnabled)

RolesNamed(roles, name) == {i \in DOMAIN roles : roles[i].name = name}
HasRole(roles, name) == RolesNamed(roles, name) # {}
UniqueNames(roles) ==
  \A i, j \in DOMAIN roles : roles[i].name = roles[j].name => i = j

-----------------------------------------------------------------------------
(* core/config.ts                                                          *)

\* the message of the Error thrown (its backquotes written as quotes)
CONFIG_NOT_FOUND == "No qa-director.config.ts found. Run 'qa-director init' first."

\* loadConfig's result when no file exists (a mutant returns a default).
LoadConfigDefaulting(file, cache) ==
  IF file = NoFile THEN Some(InitialConfig(AuthDirA, FALSE))
  ELSE IF cache # NoModule THEN cache ELSE file

\* loadConfig: null when the file is absent; otherwise the default export of
\* the transpiled module. import() of the same path is answered from the
\* process's module map, so a process that already imported config.mjs gets
\* the module it imported first; schema.parse copies it.
LoadConfig(file, cache) ==
  IF file = NoFile THEN Null
  ELSE IF cache # NoModule THEN cache ELSE file

\* The module map after loadConfig.
CacheAfterLoad(file, cache) ==
  IF file = NoFile THEN cache
  ELSE IF cache # NoModule THEN cache ELSE file

\* addRole without the filter (a mutant): the role is only appended.
AddRoleAppendOnly(roles, role) == Append(roles, role)

\* addRole's list update: filter out the same name, push the role.
AddRoleRoles(roles, role) ==
  LET Other(r) == r.name # role.name
  IN  Append(SelectSeq(roles, Other), role)

\* removeRole's list update: filter out the name.
RemoveRoleRoles(roles, roleName) ==
  LET Other(r) == r.name # roleName
  IN  SelectSeq(roles, Other)

\* What the file holds after addRole(role): unchanged when loadConfig gave null.
FileAfterAddRole(file, cache, role) ==
  LET config == LoadConfig(file, cache)
  IN  IF config = Null THEN file
      ELSE Some([ValueOf(config) EXCEPT !.roles = AddRoleRoles(@, role)])

FileAfterRemoveRole(file, cache, roleName) ==
  LET config == LoadConfig(file, cache)
  IN  IF config = Null THEN file
      ELSE Some([ValueOf(config) EXCEPT !.roles = RemoveRoleRoles(@, roleName)])

\* The record of one API call: what was on disk before, and the error thrown.
Call(op, arg, before, error) ==
  [op |-> op, arg |-> arg, before |-> before, error |-> error]

NoError == "NoError"

Log(c) == IF Len(calls) < 2 THEN Append(calls, c) ELSE <<calls[2], c>>

MaxCalls == 4

RoleInputs == {MkRole(n, StoragePathOf(d, n), <<>>, Null) : n \in RoleNames, d \in AuthDirs}

AddRole(role) ==
  /\ nCalls < MaxCalls
  /\ LET config == LoadConfig(configFile, moduleCache)
     IN  /\ configFile' = FileAfterAddRole(configFile, moduleCache, role)
         /\ moduleCache' = CacheAfterLoad(configFile, moduleCache)
         /\ calls' = Log(Call("addRole", role, configFile,
                              IF config = Null THEN CONFIG_NOT_FOUND ELSE NoError))
  /\ nCalls' = nCalls + 1
  /\ UNCHANGED <<envFile, exampleFile, cliVars, detectVars, procVars>>

RemoveRole(roleName) ==
  /\ nCalls < MaxCalls
  /\ LET config == LoadConfig(configFile, moduleCache)
     IN  /\ configFile' = FileAfterRemoveRole(configFile, moduleCache, roleName)
         /\ moduleCache' = CacheAfterLoad(configFile, moduleCache)
         /\ calls' = Log(Call("removeRole", roleName, configFile,
                              IF config = Null THEN CONFIG_NOT_FOUND ELSE NoError))
  /\ nCalls' = nCalls + 1
  /\ UNCHANGED <<envFile, exampleFile, cliVars, detectVars, procVars>>

\* saveConfig(config): the whole document is written. The initial
\* configuration is what init saves.
SaveConfig(config) ==
  /\ nCalls < MaxCalls
  /\ configFile' = Some(config)
  /\ calls' = Log(Call("saveConfig", config, configFile, NoError))
  /\ nCalls' = nCalls + 1
  /\ UNCHANGED <<moduleCache, envFile, exampleFile, cliVars, detectVars, procVars>>

\* updateConfig({authDir}): load, spread the updates over it, save.
UpdateConfig(authDir) ==
  /\ nCalls < MaxCalls
  /\ LET config == LoadConfig(configFile, moduleCache)
     IN  /\ configFile' = IF config = Null THEN configFile
                          ELSE Some([ValueOf(config) EXCEPT !.authDir = authDir])
         /\ moduleCache' = CacheAfterLoad(configFile, moduleCache)
         /\ calls' = Log(Call("updateConfig", authDir, configFile,
                              IF config = Null THEN CONFIG_NOT_FOUND ELSE NoError))
  /\ nCalls' = nCalls + 1
  /\ UNCHANGED <<envFile, exampleFile, cliVars, detectVars, procVars>>

\* The process ends and the next call runs in a new one: an empty module map.
NewProcess ==
  /\ moduleCache # NoModule
  /\ moduleCache' = NoModule
  /\ UNCHANGED <<configFile, calls, nCalls, envFile, exampleFile, cliVars, detectVars, procVars>>

-----------------------------------------------------------------------------
(* core/env-detection.ts: generateEnvVarName                               *)

S_admin == <<"a", "d", "m", "i", "n">>
S_QA == <<"Q", "A", "_">>
S_USER == <<"U", "S", "E", "R">>
S_EMAIL == <<"_", "E", "M", "A", "I", "L">>
S_PASSWORD == <<"_", "P", "A", "S", "S", "W", "O", "R", "D">>
S_VALUE == <<"_", "V", "A", "L", "U", "E">>
QA_ADMIN_EMAIL == <<"Q", "A", "_", "A", "D", "M", "I", "N", "_", "E", "M", "A", "I", "L">>
QA_ADMIN_PASSWORD == <<"Q", "A", "_", "A", "D", "M", "I", "N", "_", "P", "A", "S", "S", "W", "O", "R", "D">>
QA_USER_EMAIL == <<"Q", "A", "_", "U", "S", "E", "R", "_", "E", "M", "A", "I", "L">>
QA_USER_PASSWORD == <<"Q", "A", "_", "U", "S", "E", "R", "_", "P", "A", "S", "S", "W", "O", "R", "D">>

\* roleName ? roleName.toUpperCase() : "USER" (<<>> is no role, or an empty one)
RolePrefix(roleName) ==
  IF roleName = <<>> THEN S_USER ELSE ToUpperCase(roleName)

\* the admin test of generateEnvVarName looking at the field context only
\* (a mutant)
AdminContextOfFieldOnly(value, fieldContext) ==
  Includes(ToLowerCase(fieldContext), S_admin)

\* fieldContext?.toLowerCase().includes("admin") || value.toLowerCase().includes("admin")
\* (<<>> is no field context, or an empty one)
AdminContext(value, fieldContext) ==
  \/ Includes(ToLowerCase(fieldContext), S_admin)
  \/ Includes(ToLowerCase(value), S_admin)

GenerateEnvVarName(value, type, fieldContext, roleName) ==
  CASE type = "email" ->
         IF AdminContext(value, fieldContext) THEN QA_ADMIN_EMAIL
         ELSE S_QA \o RolePrefix(roleName) \o S_EMAIL
    [] type = "password" ->
         IF AdminContext(value, fieldContext) THEN QA_ADMIN_PASSWORD
         ELSE S_QA \o RolePrefix(roleName) \o S_PASSWORD
    [] OTHER -> S_QA \o RolePrefix(roleName) \o S_VALUE

-----------------------------------------------------------------------------
(* core/files.ts: createEnvFiles, updateEnvFiles                           *)

ENV_TEMPLATE == <<"#", " ", "Q", "A", " ", "D", "i", "r", "e", "c", "t", "o", "r", " ", "E", "n", "v", "i", "r", "o", "n", "m", "e", "n", "t", " ", "V", "a", "r", "i", "a", "b", "l", "e", "s", "\n", "A", "N", "T", "H", "R", "O", "P", "I", "C", "_", "A", "P", "I", "_", "K", "E", "Y", "=", "y", "o", "u", "r", "_", "a", "n", "t", "h", "r", "o", "p", "i", "c", "_", "a", "p", "i", "_", "k", "e", "y", "_", "h", "e", "r", "e", "\n">>

\* The env file init writes when the user gave an API key.
EnvWithKey == <<"#", " ", "Q", "A", " ", "D", "i", "r", "e", "c", "t", "o", "r", " ", "E", "n", "v", "i", "r", "o", "n", "m", "e", "n", "t", " ", "V", "a", "r", "i", "a", "b", "l", "e", "s", "\n", "A", "N", "T", "H", "R", "O", "P", "I", "C", "_", "A", "P", "I", "_", "K", "E", "Y", "=", "s", "k", "-", "a", "n", "t", "-", "1", "\n">>

\* An env file the user edited: the last line has no line break.
EnvNoNewline == <<"B", "A", "S", "E", "_", "U", "R", "L", "=", "h", "t", "t", "p", ":", "/", "/", "x">>

\* An env file whose comment mentions a variable.
EnvMention == <<"#", " ", "Q", "A", "_", "U", "S", "E", "R", "_", "E", "M", "A", "I", "L", " ", "i", "s", " ", "s", "e", "t", " ", "i", "n", " ", "C", "I", "\n">>

\* `${envVar}=your_${envVar.toLowerCase()}_here\n`: the env line when no actual
\* value is passed, and the example line always.
EnvLine(envVar) ==
  envVar \o <<"=">> \o <<"y", "o", "u", "r", "_">> \o ToLowerCase(envVar)
         \o <<"_", "h", "e", "r", "e">> \o <<"\n">>

\* the for loop over envVars on one of the two contents
RECURSIVE AppendEnvVars(_, _)
AppendEnvVars(content, envVars) ==
  IF envVars = <<>> THEN content
  ELSE AppendEnvVars(IF Includes(content, Head(envVars)) THEN content
                     ELSE content \o EnvLine(Head(envVars)),
                     Tail(envVars))

\* try { read env; read example } catch { both start from the template }
EnvContentRead(env, example) ==
  IF env # NoFile /\ example # NoFile THEN ValueOf(env) ELSE ENV_TEMPLATE

ExampleContentRead(env, example) ==
  IF env # NoFile /\ example # NoFile THEN ValueOf(example) ELSE ENV_TEMPLATE

EnvFileAfterUpdate(env, example, envVars) ==
  Some(AppendEnvVars(EnvContentRead(env, example), envVars))

ExampleFileAfterUpdate(env, example, envVars) ==
  Some(AppendEnvVars(ExampleContentRead(env, example), envVars))

EnvVarNames ==
  {GenerateEnvVarName(<<>>, t, <<>>, RoleSpelling(r)) :
     t \in {"email", "password"}, r \in {RoleUser, RoleAdmin}}

MaxEnvVars == 2

MaxEnvCalls == 2

EnvVarLists ==
  {<<>>} \cup {<<a>> : a \in EnvVarNames}
         \cup (IF MaxEnvVars >= 2
               THEN {<<a, b>> : a \in EnvVarNames, b \in EnvVarNames} ELSE {})

UpdateEnvFiles(envVars) ==
  /\ nCalls < MaxEnvCalls
  /\ envFile' = EnvFileAfterUpdate(envFile, exampleFile, envVars)
  /\ exampleFile' = ExampleFileAfterUpdate(envFile, exampleFile, envVars)
  /\ calls' = Log(Call("updateEnvFiles", envVars, <<envFile, exampleFile>>, NoError))
  /\ nCalls' = nCalls + 1
  /\ UNCHANGED <<configFile, moduleCache, cliVars, detectVars, procVars>>

\* createEnvFiles(config, apiKey): both files are written from the template.
CreateEnvFiles(withKey) ==
  /\ nCalls < MaxEnvCalls
  /\ envFile' = Some(IF withKey THEN EnvWithKey ELSE ENV_TEMPLATE)
  /\ exampleFile' = Some(ENV_TEMPLATE)
  /\ calls' = Log(Call("createEnvFiles", withKey, <<envFile, exampleFile>>, NoError))
  /\ nCalls' = nCalls + 1
  /\ UNCHANGED <<configFile, moduleCache, cliVars, detectVars, procVars>>

-----------------------------------------------------------------------------
(* Specifications                                                          *)

IdleCli ==
  /\ storageFiles = {}
  /\ roleFolders = {}
  /\ setupFile = NoFile
  /\ pwConfigFile = NoFile
  /\ cmd = [op |-> "none"]
  /\ nCmds = 0

\* no invocations running at once
IdleProcs == procs = <<>> /\ tempFile = <<>>

IdleDetect ==
  /\ detectIn = <<>> /\ detectOut = <<>> /\ processedCode = <<>>
  /\ fnIn = <<>> /\ fnOut = <<>>

\* The registry API used by one process after another.
InitRegistry ==
  /\ configFile \in {NoFile} \cup {Some(InitialConfig(d, FALSE)) : d \in AuthDirs}
  /\ moduleCache = NoModule
  /\ calls = <<>>
  /\ nCalls = 0
  /\ envFile = NoFile
  /\ exampleFile = NoFile
  /\ IdleCli
  /\ IdleProcs
  /\ IdleDetect

NextRegistry ==
  \/ \E role \in RoleInputs : AddRole(role)
  \/ \E n \in RoleNames : RemoveRole(n)
  \/ \E d \in AuthDirs : SaveConfig(InitialConfig(d, FALSE))
  \/ \E d \in AuthDirs : UpdateConfig(d)
  \/ NewProcess

SpecRegistry == InitRegistry /\ [][NextRegistry]_vars

\* The env files as init, login and the user leave them.
EnvFileInits ==
  {NoFile, Some(ENV_TEMPLATE), Some(EnvWithKey), Some(EnvNoNewline), Some(EnvMention)}

InitEnvFiles ==
  /\ configFile = Some(InitialConfig(AuthDirA, FALSE))
  /\ moduleCache = NoModule
  /\ calls = <<>>
  /\ nCalls = 0
  /\ envFile \in EnvFileInits
  /\ exampleFile \in EnvFileInits
  /\ IdleCli
  /\ IdleProcs
  /\ IdleDetect

NextEnvFiles ==
  \/ \E l \in EnvVarLists : UpdateEnvFiles(l)
  \/ \E k \in BOOLEAN : CreateEnvFiles(k)

SpecEnvFiles == InitEnvFiles /\ [][NextEnvFiles]_vars

-----------------------------------------------------------------------------
(* Claims about the role registry and the env files                        *)

LastCall == calls[Len(calls)]

\* The roles of a configuration file that exists.
RolesOf(file) == ValueOf(file).roles

\* What was on disk after call i of the log.
ConfigAfterCall(i) == IF i = Len(calls) THEN configFile ELSE calls[i + 1].before

\* C1: two addRole calls in a row with the same name n and different
\* storagePath values, made on an existing configuration, leave exactly one
\* role named n, which is the second call's role, and every role of another
\* name that the configuration held before the two calls is still there,
\* unchanged.
C1_AddTwiceIsUpsert ==
  ( /\ Len(calls) = 2
    /\ calls[1].op = "addRole" /\ calls[2].op = "addRole"
    /\ calls[1].before # NoFile
    /\ calls[1].arg.name = calls[2].arg.name
    /\ calls[1].arg.storagePath # calls[2].arg.storagePath )
  => /\ configFile # NoFile
     /\ Cardinality(RolesNamed(RolesOf(configFile), calls[2].arg.name)) = 1
     /\ \A i \in RolesNamed(RolesOf(configFile), calls[2].arg.name) :
          RolesOf(configFile)[i] = calls[2].arg
     /\ \A i \in DOMAIN RolesOf(calls[1].before) :
          RolesOf(calls[1].before)[i].name # calls[2].arg.name
          => \E j \in DOMAIN RolesOf(configFile) :
               RolesOf(configFile)[j] = RolesOf(calls[1].before)[i]

\* C2: no two roles of the persisted configuration share a name.
C2_UniqueRoleNames == configFile # NoFile => UniqueNames(RolesOf(configFile))

\* C2's case: addRole replaced a role of the same name in a list of several.
C2_Witness ==
  /\ calls # <<>>
  /\ LastCall.op = "addRole"
  /\ LastCall.before # NoFile
  /\ HasRole(RolesOf(LastCall.before), LastCall.arg.name)
  /\ configFile # NoFile
  /\ Len(RolesOf(configFile)) >= 2

\* C3: removeRole with a name that is not in the persisted roles list throws
\* nothing and leaves the persisted configuration as it was.
C3_RemoveAbsentIsNoop ==
  ( /\ calls # <<>>
    /\ LastCall.op = "removeRole"
    /\ LastCall.before # NoFile
    /\ ~HasRole(RolesOf(LastCall.before), LastCall.arg) )
  => /\ LastCall.error = NoError
     /\ configFile = LastCall.before

\* C4: addRole and removeRole called when no configuration file exists throw
\* the configuration-not-found error and no configuration file exists after.
C4_NoConfigThrows ==
  \A i \in DOMAIN calls :
    (calls[i].op \in {"addRole", "removeRole"} /\ calls[i].before = NoFile)
    => /\ calls[i].error = CONFIG_NOT_FOUND
       /\ ConfigAfterCall(i) = NoFile

\* C4's case: both operations were called without a configuration file.
C4_Witness ==
  /\ Len(calls) = 2
  /\ calls[1].op = "addRole" /\ calls[1].before = NoFile
  /\ calls[2].op = "removeRole" /\ calls[2].before = NoFile

\* C7: after updateEnvFiles, each of the two files that existed before the
\* call starts with its previous content.
C7_UpdateOnlyAppends ==
  (calls # <<>> /\ LastCall.op = "updateEnvFiles")
  => /\ LastCall.before[1] # NoFile
          => IsPrefix(ValueOf(LastCall.before[1]), ValueOf(envFile))
     /\ LastCall.before[2] # NoFile
          => IsPrefix(ValueOf(LastCall.before[2]), ValueOf(exampleFile))

-----------------------------------------------------------------------------
(* core/env-detection.ts: detectEnvVars                                    *)

\* A transcript is the sequence of the statements playwright codegen wrote,
\* each of the form
\*   page.getByRole('textbox', { name: '<name>' }).<action>
\* where the action is fill('<val>') (act "fill", val not containing a quote
\* character) or one that fills nothing, such as click() (act "click").

Stmt(name, act, val) == [name |-> name, act |-> act, val |-> val]


\* (?:[eE]mail|[uU]sername|[uU]ser) inside the name of the locator
EmailFieldName(name) ==
  \E k \in {<<"E", "m", "a", "i", "l">>, <<"e", "m", "a", "i", "l">>, <<"U", "s", "e", "r", "n", "a", "m", "e">>, <<"u", "s", "e", "r", "n", "a", "m", "e">>, <<"U", "s", "e", "r">>, <<"u", "s", "e", "r">>} : Includes(name, k)

\* [pP]assword inside the name of the locator
PasswordFieldName(name) ==
  \E k \in {<<"P", "a", "s", "s", "w", "o", "r", "d">>, <<"p", "a", "s", "s", "w", "o", "r", "d">>} : Includes(name, k)

\* fillPatterns, in the order of the array
FillPatternTypes == <<"email", "password">>

FieldNameMatches(type, name) ==
  IF type = "email" THEN EmailFieldName(name) ELSE PasswordFieldName(name)

\* .fill(['"`]([^'"`]+)['"`]\): a fill whose argument is a non-empty literal
IsLiteralFill(s) == s.act = "fill" /\ s.val # <<>>

\* The first statement at or after position from whose locator the pattern of
\* this type accepts, 0 when there is none.
FirstLocator(code, from, type) ==
  LET found == {j \in from..Len(code) : FieldNameMatches(type, code[j].name)}
  IN  IF found = {} THEN 0 ELSE CHOOSE j \in found : \A i \in found : j <= i

\* [\s\S]*?\.fill(...): the lazy gap runs on, over statement ends, to the
\* first literal fill at or after the locator; 0 when there is none.
FirstFill(code, from) ==
  LET found == {k \in from..Len(code) : IsLiteralFill(code[k])}
  IN  IF found = {} THEN 0 ELSE CHOOSE k \in found : \A i \in found : k <= i

\* while ((match = pattern.exec(code)) !== null): the successive matches of a
\* global pattern, each searched from the end of the one before.
RECURSIVE PatternMatches(_, _, _)
PatternMatches(code, from, type) ==
  LET j == FirstLocator(code, from, type)
      k == IF j = 0 THEN 0 ELSE FirstFill(code, j)
  IN  IF j = 0 \/ k = 0 THEN <<>>
      ELSE <<[fieldContext |-> code[j].name, value |-> code[k].val, type |-> type,
              locator |-> j, fill |-> k]>>
           \o PatternMatches(code, k + 1, type)

\* isLikelySelector
IsLikelySelector(value) ==
  \/ Len(value) >= 2 /\ value[1] = "#" /\ IsLetter(value[2])
  \/ Len(value) >= 2 /\ value[1] = "." /\ IsLetter(value[2])
  \/ /\ Len(value) >= 2 /\ value[1] = "[" /\ value[Len(value)] = "]"
     /\ \A i \in 2..(Len(value) - 1) : value[i] # "\n"
  \/ /\ Len(value) >= 1 /\ IsLetter(value[1])
     /\ \A i \in 2..Len(value) : IsAlnum(value[i])
  \/ \E p \in {<<"d", "a", "t", "a", "-", "t", "e", "s", "t", "i", "d">>, <<"d", "a", "t", "a", "-", "c", "y">>, <<"c", "l", "a", "s", "s", "=">>, <<"i", "d", "=">>} : Includes(ToLowerCase(value), p)

\* commonTestData
CommonTestData ==
  {<<"t", "e", "s", "t">>, <<"d", "e", "m", "o">>, <<"s", "a", "m", "p", "l", "e">>, <<"e", "x", "a", "m", "p", "l", "e">>, <<"p", "l", "a", "c", "e", "h", "o", "l", "d", "e", "r">>, <<"l", "o", "r", "e", "m">>, <<"i", "p", "s", "u", "m">>, <<"j", "o", "h", "n">>,
   <<"j", "a", "n", "e">>, <<"d", "o", "e">>, <<"a", "d", "m", "i", "n">>, <<"u", "s", "e", "r">>, <<"g", "u", "e", "s", "t">>, <<"t", "e", "s", "t", "1", "2", "3">>, <<"p", "a", "s", "s", "w", "o", "r", "d", "1", "2", "3">>}

\* isCommonTestData comparing the whole value with each entry (a mutant)
IsCommonTestDataExact(value) == ToLowerCase(value) \in CommonTestData

\* isCommonTestData
IsCommonTestData(value) ==
  \E data \in CommonTestData : Includes(ToLowerCase(value), data)

\* the filter of detectEnvVars without the selector test (a mutant)
SkippedTestDataOnly(value) == IsCommonTestData(value)

\* if (isLikelySelector(value) || isCommonTestData(value)) continue;
Skipped(value) == IsLikelySelector(value) \/ IsCommonTestData(value)

EnvVar(name, value, type) == [name |-> name, value |-> value, type |-> type]

\* the body of the while loop over the matches of one pattern
RECURSIVE EnvVarsOfMatches(_, _)
EnvVarsOfMatches(matches, roleName) ==
  IF matches = <<>> THEN <<>>
  ELSE LET m == Head(matches)
       IN  (IF Skipped(m.value) THEN <<>>
            ELSE <<EnvVar(GenerateEnvVarName(m.value, m.type, m.fieldContext, roleName),
                          m.value, m.type)>>)
           \o EnvVarsOfMatches(Tail(matches), roleName)

\* deduplicateEnvVars that remembers the names only (a mutant)
RECURSIVE DeduplicateByNameOnly(_, _)
DeduplicateByNameOnly(envVars, kept) ==
  IF envVars = <<>> THEN kept
  ELSE LET e == Head(envVars)
           seen == \E i \in DOMAIN kept : kept[i].name = e.name
       IN  DeduplicateByNameOnly(Tail(envVars), IF seen THEN kept ELSE Append(kept, e))

\* deduplicateEnvVars that remembers the name and the value of every entry
\* it has passed, kept or not (a mutant)
RECURSIVE DeduplicateRememberingAll(_, _)
DeduplicateRememberingAll(envVars, kept) ==
  IF envVars = <<>> THEN kept
  ELSE LET n == Len(envVars)
           e == envVars[n]
           seen == \E i \in 1..(n - 1) :
                     envVars[i].name = e.name \/ envVars[i].value = e.value
       IN  DeduplicateRememberingAll(SubSeq(envVars, 1, n - 1),
                                     IF seen THEN kept ELSE <<e>> \o kept)

\* deduplicateEnvVars: an entry is kept when neither its name nor its value
\* was seen in an entry kept before it.
RECURSIVE Deduplicate(_, _)
Deduplicate(envVars, kept) ==
  IF envVars = <<>> THEN kept
  ELSE LET e == Head(envVars)
           seen == \E i \in DOMAIN kept : kept[i].name = e.name \/ kept[i].value = e.value
       IN  Deduplicate(Tail(envVars), IF seen THEN kept ELSE Append(kept, e))

\* detectEnvVars returning what it collected as it is (a mutant)
DeduplicateNothing(envVars) == envVars

\* deduplicateEnvVars(envVars)
DeduplicateEnvVars(envVars) == Deduplicate(envVars, <<>>)

\* All matches, pattern by pattern, before the filter.
AllMatches(code) ==
  PatternMatches(code, 1, FillPatternTypes[1]) \o PatternMatches(code, 1, FillPatternTypes[2])

\* detectEnvVars(playwrightCode, roleName)
DetectEnvVars(code, roleName) ==
  DeduplicateEnvVars(EnvVarsOfMatches(AllMatches(code), roleName))

\* extractEnvVarNames
ExtractEnvVarNames(envVars) == [i \in DOMAIN envVars |-> envVars[i].name]

-----------------------------------------------------------------------------
(* core/env-detection.ts: replaceWithEnvVars                               *)

S_process_env == <<"p", "r", "o", "c", "e", "s", "s", ".", "e", "n", "v", ".">>

\* A string literal of the transcript text, in its quotes.
Quoted(text) == [quoted |-> TRUE, text |-> text]

\* process.env.<NAME>, which stands in the text without quotes.
EnvRef(name) == [quoted |-> FALSE, text |-> S_process_env \o name]

\* The text of a transcript as replaceWithEnvVars sees it: per statement the
\* two places that hold a quoted literal, the name of the locator and the
\* argument of fill (the empty text where the action has no argument).
CodeText(code) ==
  [i \in DOMAIN code |->
     [name |-> Quoted(code[i].name), act |-> code[i].act, val |-> Quoted(code[i].val)]]

\* The quote character codegen writes; the pattern's group 1 when it matches.
S_quote == "'"

\* The replacement string of String.prototype.replace, expanded for one match:
\* $$ gives $, $& the matched text, $1 the text of group 1, and any other
\* character stands for itself.  (The patterns that insert the text before or
\* after the match need a quote or a backtick after the $, which no name has
\* that was made from a modelled role.)
RECURSIVE ExpandReplacement(_, _)
ExpandReplacement(template, matched) ==
  IF \A i \in DOMAIN template : template[i] # "$" THEN template
  ELSE IF Len(template) >= 2 /\ template[1] = "$" /\ template[2] \in {"$", "&", "1"}
       THEN (CASE template[2] = "$" -> <<"$">>
               [] template[2] = "&" -> matched
               [] template[2] = "1" -> <<S_quote>>)
            \o ExpandReplacement(SubSeq(template, 3, Len(template)), matched)
       ELSE <<Head(template)>> \o ExpandReplacement(Tail(template), matched)

\* text.replace(regex, replacement) inside text that stands outside a literal:
\* every occurrence of the value between two quotes, left to right.
RECURSIVE ReplaceAllIn(_, _, _)
ReplaceAllIn(text, matched, replacement) ==
  LET at == {i \in 1..Len(text) :
               i + Len(matched) - 1 <= Len(text)
                 /\ SubSeq(text, i, i + Len(matched) - 1) = matched}
  IN  IF at = {} THEN text
      ELSE LET i == CHOOSE j \in at : \A k \in at : j <= k
           IN  SubSeq(text, 1, i - 1) \o replacement
                 \o ReplaceAllIn(SubSeq(text, i + Len(matched), Len(text)), matched, replacement)

\* new RegExp(`(['"`])${escapedValue}\\1`, "g") with the replacement
\* `process.env.${envVar.name}`: a literal whose text is the value is replaced,
\* quotes included, by the expanded replacement; text that an earlier
\* replacement left outside a literal is searched as well.
ReplaceLiteral(lit, envVar) ==
  LET matched == <<S_quote>> \o envVar.value \o <<S_quote>>
      replacement == ExpandReplacement(S_process_env \o envVar.name, matched)
  IN  IF lit.quoted
      THEN IF lit.text = envVar.value THEN [quoted |-> FALSE, text |-> replacement] ELSE lit
      ELSE [quoted |-> FALSE, text |-> ReplaceAllIn(lit.text, matched, replacement)]

\* processedCode.replace(regex, `process.env.${envVar.name}`)
ReplaceOne(text, envVar) ==
  [i \in DOMAIN text |->
     [name |-> ReplaceLiteral(text[i].name, envVar), act |-> text[i].act,
      val |-> ReplaceLiteral(text[i].val, envVar)]]

\* envVars.forEach over the text processed so far
RECURSIVE ReplaceEach(_, _)
ReplaceEach(text, envVars) ==
  IF envVars = <<>> THEN text
  ELSE ReplaceEach(ReplaceOne(text, Head(envVars)), Tail(envVars))

\* replaceWithEnvVars(code, envVars)
ReplaceWithEnvVars(code, envVars) == ReplaceEach(CodeText(code), envVars)

-----------------------------------------------------------------------------
(* Transcripts                                                             *)

FieldEmail == <<"E", "m", "a", "i", "l">>
FieldPassword == <<"P", "a", "s", "s", "w", "o", "r", "d">>
FieldAdminEmail == <<"A", "d", "m", "i", "n", " ", "E", "m", "a", "i", "l">>
FieldSearch == <<"S", "e", "a", "r", "c", "h">>
ValBob == <<"b", "o", "b", "@", "c", "o", "r", "p", ".", "i", "o">>
ValSecret == <<"s", "3", "c", "r", "3", "t", "!">>
ValAlice == <<"a", "l", "i", "c", "e", "@", "e", "x", "a", "m", "p", "l", "e", ".", "c", "o", "m">>
ValLoginBtn == <<"#", "l", "o", "g", "i", "n", "-", "b", "t", "n">>
ValHashDigit == <<"#", "1", "x", "!">>
ValHunter == <<"h", "u", "n", "t", "e", "r", "2">>

Values == {ValBob, ValSecret, ValAlice, ValLoginBtn, ValHashDigit, ValHunter}

\* The statements transcripts are made of: any value into the e-mail and the
\* password field, two values into the admin e-mail field and into a field
\* that is no credential field, and a click on either credential field.
Statements ==
  {Stmt(n, "fill", v) : n \in {FieldEmail, FieldPassword}, v \in Values}
    \cup {Stmt(FieldAdminEmail, "fill", v) : v \in {ValBob, ValSecret}}
    \cup {Stmt(FieldSearch, "fill", v) : v \in {ValBob, ValLoginBtn}}
    \cup {Stmt(n, "click", <<>>) : n \in {FieldEmail, FieldPassword}}

MaxStmts == 2

RECURSIVE TranscriptsOfLen(_)
TranscriptsOfLen(n) ==
  IF n = 0 THEN {<<>>}
  ELSE {Append(t, s) : t \in TranscriptsOfLen(n - 1), s \in Statements}

Transcripts == UNION {TranscriptsOfLen(n) : n \in 0..MaxStmts}

\* roleName as login passes it: the role argument of the command line, which
\* is any text the user gives.
RoleDollar == <<"$", "&">>

RoleArgs == {RoleSpelling(RoleQa), RoleDollar}

IdleApi ==
  /\ configFile = NoFile
  /\ moduleCache = NoModule
  /\ calls = <<>>
  /\ nCalls = 0
  /\ envFile = NoFile
  /\ exampleFile = NoFile

InitDetect ==
  /\ detectIn \in {Some([code |-> t, roleName |-> r]) : t \in Transcripts, r \in RoleArgs}
  /\ detectOut = <<>>
  /\ processedCode = <<>>
  /\ fnIn = <<>> /\ fnOut = <<>>
  /\ IdleApi
  /\ IdleCli
  /\ IdleProcs

Detect ==
  /\ detectIn # <<>>
  /\ detectOut = <<>>
  /\ detectOut' = Some(DetectEnvVars(ValueOf(detectIn).code, ValueOf(detectIn).roleName))
  /\ UNCHANGED <<detectIn, processedCode, fnIn, fnOut, apiVars, cliVars, procVars>>

\* replaceWithEnvVars(loginFlow, envVars) on the transcript and the variables
\* detected from it, as login calls it.
Replace ==
  /\ detectOut # <<>>
  /\ processedCode = <<>>
  /\ processedCode' = Some(ReplaceWithEnvVars(ValueOf(detectIn).code, ValueOf(detectOut)))
  /\ UNCHANGED <<detectIn, detectOut, fnIn, fnOut, apiVars, cliVars, procVars>>

NextDetect == Detect \/ Replace

SpecDetect == InitDetect /\ [][NextDetect]_vars


-----------------------------------------------------------------------------
(* Claims about detectEnvVars                                              *)

DetectRan == detectIn # <<>> /\ detectOut # <<>>
DetectCode == ValueOf(detectIn).code
Detected == ValueOf(detectOut)

\* The statements of the transcript under detection that fill a literal
\* into a textbox whose name carries an email/username keyword.
EmailFills == {k \in DOMAIN DetectCode :
                 IsLiteralFill(DetectCode[k]) /\ EmailFieldName(DetectCode[k].name)}

\* The placeholder tokens as the specification lists them.
PlaceholderTokens ==
  {<<"t", "e", "s", "t">>, <<"d", "e", "m", "o">>, <<"s", "a", "m", "p", "l", "e">>, <<"e", "x", "a", "m", "p", "l", "e">>, <<"p", "l", "a", "c", "e", "h", "o", "l", "d", "e", "r">>, <<"l", "o", "r", "e", "m">>, <<"i", "p", "s", "u", "m">>, <<"j", "o", "h", "n">>,
   <<"j", "a", "n", "e">>, <<"d", "o", "e">>, <<"a", "d", "m", "i", "n">>, <<"u", "s", "e", "r">>, <<"g", "u", "e", "s", "t">>}

PlaceholderLike(value) ==
  \E t \in PlaceholderTokens : Includes(ToLowerCase(value), t)

Bracketed(value) ==
  /\ Len(value) >= 2 /\ value[1] = "[" /\ value[Len(value)] = "]"
  /\ \A i \in 2..(Len(value) - 1) : value[i] # "\n"

BareIdentifier(value) ==
  /\ Len(value) >= 1 /\ IsLetter(value[1])
  /\ \A i \in 2..Len(value) : IsAlnum(value[i])

ContainsSelectorWord(value) ==
  \E p \in {<<"d", "a", "t", "a", "-", "t", "e", "s", "t", "i", "d">>, <<"d", "a", "t", "a", "-", "c", "y">>, <<"c", "l", "a", "s", "s", "=">>, <<"i", "d", "=">>} : Includes(ToLowerCase(value), p)

\* Selector-shaped, read literally: any leading # or . counts.
SelectorShapedLoose(value) ==
  \/ Len(value) >= 1 /\ value[1] \in {"#", "."}
  \/ Bracketed(value)
  \/ BareIdentifier(value)
  \/ ContainsSelectorWord(value)

\* Selector-shaped, with the leading # or . followed by a letter.
SelectorShaped(value) ==
  \/ Len(value) >= 2 /\ value[1] \in {"#", "."} /\ IsLetter(value[2])
  \/ Bracketed(value)
  \/ BareIdentifier(value)
  \/ ContainsSelectorWord(value)

Carrying(value) == {i \in DOMAIN Detected : Detected[i].value = value}

\* C9 as stated: every literal fill on an email/username textbox whose value is
\* neither placeholder-like nor selector-shaped gives exactly one returned
\* credential with that value, and that credential is of kind email.
C9_ExactlyOneEmail ==
  DetectRan =>
    \A k \in EmailFills :
      LET v == DetectCode[k].val
      IN  (~PlaceholderLike(v) /\ ~SelectorShaped(v)) =>
            /\ Cardinality(Carrying(v)) = 1
            /\ \A i \in Carrying(v) : Detected[i].type = "email"

\* C9 amended: such a fill gives at most one returned credential with that
\* value; when no statement before it addresses an email/username textbox, it
\* gives exactly one, of kind email.
C9_FirstEmailFillDetected ==
  DetectRan =>
    \A k \in EmailFills :
      LET v == DetectCode[k].val
      IN  (~PlaceholderLike(v) /\ ~SelectorShaped(v)) =>
            /\ Cardinality(Carrying(v)) <= 1
            /\ (\A j \in 1..(k - 1) : ~EmailFieldName(DetectCode[j].name)) =>
                 /\ Cardinality(Carrying(v)) = 1
                 /\ \A i \in Carrying(v) : Detected[i].type = "email"

\* C9 witness: a password fill precedes the first email fill, both with
\* values the filter lets through, and the e-mail is returned as an email.
C9_Witness ==
  /\ DetectRan
  /\ Len(DetectCode) = 2
  /\ DetectCode[1] = Stmt(FieldPassword, "fill", ValSecret)
  /\ DetectCode[2] = Stmt(FieldEmail, "fill", ValBob)
  /\ \E i \in DOMAIN Detected : Detected[i].value = ValBob /\ Detected[i].type = "email"

\* C10 as stated: no returned credential has a value that begins with # or .,
\* is a bracketed attribute, is a bare identifier, contains data-testid,
\* data-cy, class= or id=, or contains a placeholder token; and a transcript
\* whose fills all have such values yields the empty list.
C10_NoSelectorOrPlaceholder ==
  DetectRan =>
    /\ \A i \in DOMAIN Detected :
         ~SelectorShapedLoose(Detected[i].value) /\ ~PlaceholderLike(Detected[i].value)
    /\ (\A k \in DOMAIN DetectCode :
          IsLiteralFill(DetectCode[k]) =>
            SelectorShapedLoose(DetectCode[k].val) \/ PlaceholderLike(DetectCode[k].val))
         => Detected = <<>>

\* C10 amended: the same, with "begins with # or ." narrowed to "begins with
\* # or . followed by a letter".
C10_NoSelectorLetterOrPlaceholder ==
  DetectRan =>
    /\ \A i \in DOMAIN Detected :
         ~SelectorShaped(Detected[i].value) /\ ~PlaceholderLike(Detected[i].value)
    /\ (\A k \in DOMAIN DetectCode :
          IsLiteralFill(DetectCode[k]) =>
            SelectorShaped(DetectCode[k].val) \/ PlaceholderLike(DetectCode[k].val))
         => Detected = <<>>

\* C10 witness: the e-mail field is filled with a selector and the password
\* field with a placeholder e-mail, and nothing is returned.
C10_Witness ==
  /\ DetectRan
  /\ Len(DetectCode) = 2
  /\ DetectCode[1] = Stmt(FieldEmail, "fill", ValLoginBtn)
  /\ DetectCode[2] = Stmt(FieldPassword, "fill", ValAlice)
  /\ Detected = <<>>

-----------------------------------------------------------------------------
(* cli/commands/eject.ts: removeRoleEnvVars                                *)

\* content.split("\n")
RECURSIVE SplitLines(_)
SplitLines(content) ==
  LET breaks == {i \in DOMAIN content : content[i] = "\n"}
  IN  IF breaks = {} THEN <<content>>
      ELSE LET b == CHOOSE i \in breaks : \A j \in breaks : i <= j
           IN  <<SubSeq(content, 1, b - 1)>>
                 \o SplitLines(SubSeq(content, b + 1, Len(content)))

\* filteredLines.join("\n")
RECURSIVE JoinLines(_)
JoinLines(lines) ==
  IF lines = <<>> THEN <<>>
  ELSE IF Len(lines) = 1 THEN lines[1]
  ELSE lines[1] \o <<"\n">> \o JoinLines(Tail(lines))

WhiteSpace == {" ", "\t", "\r", "\n"}

\* line.trim()
Trim(line) ==
  LET inked == {i \in DOMAIN line : line[i] \notin WhiteSpace}
  IN  IF inked = {} THEN <<>>
      ELSE SubSeq(line, CHOOSE i \in inked : \A j \in inked : i <= j,
                        CHOOSE i \in inked : \A j \in inked : i >= j)

\* lines.filter((line) => !line.trim().startsWith(`${envVar}=`)), joined
\* again when a line was dropped
WithoutEnvVar(content, envVar) ==
  LET lines == SplitLines(content)
      filteredLines == SelectSeq(lines, LAMBDA line : ~StartsWith(Trim(line), envVar \o <<"=">>))
  IN  IF Len(filteredLines) # Len(lines) THEN JoinLines(filteredLines) ELSE content

\* for (const envVar of role.envVars) on the content of one file
RECURSIVE WithoutEnvVars(_, _)
WithoutEnvVars(content, envVars) ==
  IF envVars = <<>> THEN content
  ELSE WithoutEnvVars(WithoutEnvVar(content, Head(envVars)), Tail(envVars))

\* removeRoleEnvVars on one of the two files: a missing file is skipped
FileAfterRemoveRoleEnvVars(file, role) ==
  IF file = NoFile THEN NoFile ELSE Some(WithoutEnvVars(ValueOf(file), role.envVars))

-----------------------------------------------------------------------------
(* cli/commands/login.ts: loginCommand, recordLoginFlow, handleNewRole     *)

TestDir == "tests"

\* `${config.testDir}/${roleName}`
RoleFolderOf(roleName) == TestDir \o "/" \o roleName

\* What recordLoginFlow gets from playwright codegen: the exit code of the
\* process and the generated code, captured or not readable.
Codegen(exit, captured, code) == [exit |-> exit, captured |-> captured, code |-> code]

\* let loginFlow = "": no recording was made
NotRecorded == Codegen(0, FALSE, <<>>)

\* The transcript of the end-to-end scenario and one whose two values pass
\* the filter.
TranscriptAlice ==
  <<Stmt(FieldEmail, "fill", ValAlice), Stmt(FieldPassword, "fill", ValSecret)>>
TranscriptBob ==
  <<Stmt(FieldEmail, "fill", ValBob), Stmt(FieldPassword, "fill", ValSecret)>>
LoginTranscripts == {TranscriptAlice, TranscriptBob}

CodegenOutcomes ==
  {Codegen(0, TRUE, t) : t \in LoginTranscripts}
    \cup {Codegen(0, FALSE, <<>>), Codegen(1, FALSE, <<>>)}

\* What an agent-driven edit does: callClaudeCode returns success, returns
\* success=false, or the call throws; "none" when the edit is not attempted
\* and "skipped" when the file to edit does not exist.
AgentOutcomes == {"success", "failure", "throws"}

\* codegen --save-storage: the credential state of this session replaces the
\* file at the path
SaveStorage(files, path, session) ==
  {f \in files : f.path # path} \cup {[path |-> path, session |-> session]}

\* an edit without the try/catch around it: a throw reaches the outer catch
\* of handleNewRole (a mutant)
EditAbortsOnThrow(outcome) == outcome = "throws"

\* try { await updateSetupFile(...) } catch (error) { loggers.warn(...) }, and
\* the same around updatePlaywrightConfig: no outcome of the edit leaves the
\* outer try block.
EditAborts(outcome) == FALSE

\* The file an agent edits, as a set of roles, after an edit that adds one.
FileAfterAgentAdds(file, roleName, outcome) ==
  IF file # NoFile /\ outcome = "success"
  THEN Some(ValueOf(file) \cup {roleName}) ELSE file

\* What is printed about one agent-driven edit of login: by updateSetupFile
\* or updatePlaywrightConfig ("not found, skipping"; "Failed to update ...
\* automatically" and the manual instruction) and by handleNewRole (the
\* success message after a call that returned; the warning and the manual
\* instruction in its catch).
EditMessages(outcome) ==
  CASE outcome = "none" -> {}
    [] outcome = "skipped" -> {"notFound", "updated"}
    [] outcome = "success" -> {"updated"}
    [] outcome = "failure" -> {"failedAutomatically", "manual", "updated"}
    [] outcome = "throws" -> {"failed", "manual"}

MaxCmds == 1

Before ==
  [config |-> configFile, env |-> envFile, example |-> exampleFile,
   storage |-> storageFiles, folders |-> roleFolders,
   setup |-> setupFile, pwConfig |-> pwConfigFile]


\* loginCommand: const config = await loadConfig(), in a fresh process
LoginConfig == LoadConfig(configFile, NoModule)

LoginRoles == IF LoginConfig = Null THEN <<>> ELSE ValueOf(LoginConfig).roles

\* const isNewRole = !config.roles.find((r) => r.name === role)
IsNewRole(role) == ~HasRole(LoginRoles, role)

\* a login that refuses to run only without a configuration (a mutant)
RefusedWithoutConfigOnly(role, refresh) == LoginConfig = Null

\* process.exit(1): no configuration, or --refresh of an unknown role
Refused(role, refresh) == LoginConfig = Null \/ (refresh /\ IsNewRole(role))

\* path.join(config.authDir, `storageState.${role}.json`)
StorageStatePath(role) ==
  IF LoginConfig = Null THEN "" ELSE StoragePathOf(ValueOf(LoginConfig).authDir, role)

\* a login that runs handleNewRole for a registered role too (a mutant)
HandlesRegisteredToo(role, refresh, codegen) ==
  ~Refused(role, refresh) /\ ~refresh /\ codegen.exit = 0

\* if (isNewRole) await handleNewRole(...): reached when the command was not
\* refused, did not return on the refresh path, and codegen did not fail
Handles(role, refresh, codegen) ==
  ~Refused(role, refresh) /\ ~refresh /\ codegen.exit = 0 /\ IsNewRole(role)

\* detectEnvVars on every login flow the command can hold (none, or one of
\* the transcripts) for every role, worked out once
DetectedAtLogin ==
  [code \in LoginTranscripts \cup {<<>>} |->
     [role \in RoleNames |-> DetectEnvVars(code, RoleSpelling(role))]]

\* const envVars = await detectEnvVars(loginFlow, roleName)
EnvVarsOf(role, refresh, codegen) ==
  IF Handles(role, refresh, codegen) THEN DetectedAtLogin[codegen.code][role] ELSE <<>>

\* if (setupExists && processedLoginFlow): the prompt about the setup file
AsksSetup(role, refresh, codegen) ==
  Handles(role, refresh, codegen) /\ setupFile # NoFile /\ codegen.captured

\* The answers and outcomes a run can meet: one value where the prompt is
\* never shown or the step never taken.
RecordAnswers(role, refresh) == IF Refused(role, refresh) THEN {FALSE} ELSE BOOLEAN
CodegenResults(shouldRecord) == IF shouldRecord THEN CodegenOutcomes ELSE {NotRecorded}
ReplaceAnswers(role, refresh, codegen) ==
  IF Len(EnvVarsOf(role, refresh, codegen)) > 0 THEN BOOLEAN ELSE {FALSE}
NewRoleAnswers(role, refresh, codegen) ==
  IF Handles(role, refresh, codegen) THEN BOOLEAN ELSE {FALSE}
SetupAnswers(role, refresh, codegen) ==
  IF AsksSetup(role, refresh, codegen) THEN BOOLEAN ELSE {FALSE}
SetupEdits(shouldUpdate) == IF shouldUpdate THEN AgentOutcomes ELSE {"none"}
ConfigEdits(shouldAddToPlaywrightConfig, setupEdit) ==
  IF ~shouldAddToPlaywrightConfig \/ EditAborts(setupEdit) THEN {"none"}
  ELSE IF pwConfigFile = NoFile THEN {"skipped"} ELSE AgentOutcomes

\* The steps of handleNewRole that run outside every try block: a throw of
\* updateEnvFiles (line 182) or of createRoleFolder (line 219) leaves
\* handleNewRole and loginCommand, and the rejection ends the process with
\* exit status 1.  updateEnvFiles is taken to throw at its first write.
StepFailures == {"none", "updateEnvFiles", "createRoleFolder"}

\* loginCommand(options) with handleNewRole.  The answers to the prompts, the
\* outcome of codegen, the step that throws and the outcomes of the agent's
\* edits are chosen where the code comes to them: an answer never asked for
\* is FALSE, an edit never made is "none".  After a throw of updateEnvFiles
\* or of createRoleFolder nothing further is asked or done.
Login(role, refresh) ==
  LET cache == CacheAfterLoad(configFile, NoModule)
      refused == Refused(role, refresh)
  IN  /\ nCmds < MaxCmds
      /\ \E shouldRecord \in RecordAnswers(role, refresh) :
         \E codegen \in CodegenResults(shouldRecord) :
         \E shouldReplace \in ReplaceAnswers(role, refresh, codegen) :
           LET \* reject(new Error(`Codegen process exited with code ${code}`))
               codegenFailed == codegen.exit # 0
               handles == Handles(role, refresh, codegen)
               envVars == EnvVarsOf(role, refresh, codegen)
               processedLoginFlow ==
                 IF shouldReplace THEN ReplaceWithEnvVars(codegen.code, envVars)
                 ELSE CodeText(codegen.code)
               envVarNames == IF shouldReplace THEN ExtractEnvVarNames(envVars) ELSE <<>>
           IN
           \E failure \in {f \in StepFailures :
                             /\ f = "updateEnvFiles" => shouldReplace
                             /\ f = "createRoleFolder" => handles} :
             /\ storageFiles' =
                  IF shouldRecord /\ ~codegenFailed
                  THEN SaveStorage(storageFiles, StorageStatePath(role), nCmds + 1)
                  ELSE storageFiles
             /\ envFile' =
                  IF shouldReplace /\ failure # "updateEnvFiles"
                  THEN EnvFileAfterUpdate(envFile, exampleFile, envVarNames)
                  ELSE envFile
             /\ exampleFile' =
                  IF shouldReplace /\ failure # "updateEnvFiles"
                  THEN ExampleFileAfterUpdate(envFile, exampleFile, envVarNames)
                  ELSE exampleFile
             /\ \E useFolder \in
                     (CASE failure = "updateEnvFiles" -> {FALSE}
                        [] failure = "createRoleFolder" -> {TRUE}
                        [] OTHER -> NewRoleAnswers(role, refresh, codegen)),
                   shouldAddToPlaywrightConfig \in
                     (IF failure # "none" THEN {FALSE}
                      ELSE NewRoleAnswers(role, refresh, codegen)),
                   shouldUpdate \in
                     (IF failure # "none" THEN {FALSE}
                      ELSE SetupAnswers(role, refresh, codegen)) :
                  \E setupEdit \in SetupEdits(shouldUpdate) :
                  \E configEdit \in ConfigEdits(shouldAddToPlaywrightConfig, setupEdit) :
                    LET roleFolder == IF useFolder THEN Some(RoleFolderOf(role)) ELSE Null
                        newRole == MkRole(role, StorageStatePath(role), envVarNames, roleFolder)
                        aborted == EditAborts(setupEdit) \/ EditAborts(configEdit)
                        exit == IF refused \/ codegenFailed \/ aborted \/ failure # "none"
                                THEN 1 ELSE 0
                    IN
                    /\ roleFolders' =
                         IF useFolder /\ failure # "createRoleFolder"
                         THEN roleFolders \cup {RoleFolderOf(role)} ELSE roleFolders
                    /\ configFile' =
                         IF handles /\ failure = "none"
                         THEN FileAfterAddRole(configFile, cache, newRole) ELSE configFile
                    /\ setupFile' = FileAfterAgentAdds(setupFile, role, setupEdit)
                    /\ pwConfigFile' = FileAfterAgentAdds(pwConfigFile, role, configEdit)
                    /\ cmd' = [op |-> "login", role |-> role, refresh |-> refresh,
                               exit |-> exit, handled |-> handles,
                               loginFlow |-> codegen, envVars |-> envVars,
                               replaced |-> shouldReplace, envVarNames |-> envVarNames,
                               processedLoginFlow |-> processedLoginFlow,
                               setupEdit |-> setupEdit, configEdit |-> configEdit,
                               setupSaid |-> EditMessages(setupEdit),
                               configSaid |-> EditMessages(configEdit),
                               failure |-> failure,
                               before |-> Before]
      /\ nCmds' = nCmds + 1
      /\ UNCHANGED <<moduleCache, calls, nCalls, detectVars, procVars>>

-----------------------------------------------------------------------------
(* cli/commands/eject.ts: ejectRole                                        *)

\* getRole(roleName): config.roles.find((r) => r.name === name)
GetRole(roles, roleName) ==
  LET named == RolesNamed(roles, roleName)
  IN  IF named = {} THEN Null
      ELSE Some(roles[CHOOSE i \in named : \A j \in named : i <= j])

\* a collection that takes the credential-state file of every role (a mutant)
CollectAllStorageFiles(roles, role, storage, folders) ==
  [i \in DOMAIN roles |->
     [path |-> roles[i].storagePath,
      exists |-> \E f \in storage : f.path = roles[i].storagePath,
      isDirectory |-> FALSE]]

\* collectRoleFilesToRemove(config, role): the credential-state file of the
\* role, then its folder when it has one
CollectRoleFilesToRemove(roles, role, storage, folders) ==
  <<[path |-> role.storagePath,
     exists |-> \E f \in storage : f.path = role.storagePath,
     isDirectory |-> FALSE]>>
  \o (IF role.folder = Null THEN <<>>
      ELSE <<[path |-> ValueOf(role.folder),
              exists |-> ValueOf(role.folder) \in folders,
              isDirectory |-> TRUE]>>)

\* the removals that may fail in one run of removeFiles: none, or that of
\* one listed file that exists
RemovalFailures(files) ==
  {{}} \cup {{files[i].path} : i \in {j \in DOMAIN files : files[j].exists}}

\* a removal that stops at the first file it fails to remove (a mutant)
RemovedPathsUntilFailure(files, isDirectory, failing) ==
  {files[i].path : i \in {j \in DOMAIN files :
                            /\ files[j].exists /\ files[j].isDirectory = isDirectory
                            /\ \A k \in 1..j : files[k].path \notin failing}}

\* removeFiles(files): every listed file that exists is removed, each in a
\* try of its own; failing holds the paths whose removal throws
RemovedPaths(files, isDirectory, failing) ==
  {files[i].path : i \in {j \in DOMAIN files :
                            /\ files[j].exists /\ files[j].isDirectory = isDirectory
                            /\ files[j].path \notin failing}}

\* The file an agent edits, as a set of roles, after an edit that removes one.
FileAfterAgentRemoves(file, roleName, outcome) ==
  IF file # NoFile /\ outcome = "success"
  THEN Some(ValueOf(file) \ {roleName}) ELSE file

\* detectRoleInPlaywrightConfig, detectRoleInSetupFile
RoleIn(file, roleName) == file # NoFile /\ roleName \in ValueOf(file)

\* an eject that lets --force override --dry-run (a mutant)
ProceedsWhenForced(dryRun, force, shouldProceed) ==
  force \/ (~dryRun /\ shouldProceed)

\* if (options.dryRun) return; if (!options.force) { prompt; if
\* (!shouldProceed) return; }: what lies behind is reached without --dry-run,
\* with --force or after the answer yes
Proceeds(dryRun, force, shouldProceed) ==
  ~dryRun /\ (force \/ shouldProceed)

\* ejectRole(roleName, options).  The answers to the prompts, the outcomes of
\* the agent's edits and the removal that fails are chosen where the code
\* comes to them; an answer never asked for is FALSE, an edit never made is
\* "none".
EjectRole(roleName, dryRun, force) ==
  LET loaded == LoadConfig(configFile, NoModule)
      cache == CacheAfterLoad(configFile, NoModule)
      roles == IF loaded = Null THEN <<>> ELSE ValueOf(loaded).roles
      found == GetRole(roles, roleName)
      known == found # Null
      role == ValueOf(found)
      playwrightConfigUsage == known /\ RoleIn(pwConfigFile, roleName)
      setupFileUsage == known /\ RoleIn(setupFile, roleName)
      filesToRemove ==
        IF known THEN CollectRoleFilesToRemove(roles, role, storageFiles, roleFolders)
        ELSE <<>>
      asksProceed == known /\ ~dryRun /\ ~force
  IN  /\ nCmds < MaxCmds
      /\ \E shouldProceed \in (IF asksProceed THEN BOOLEAN ELSE {FALSE}) :
           LET executes == known /\ Proceeds(dryRun, force, shouldProceed)
               asksConfig == executes /\ playwrightConfigUsage /\ ~force
               asksSetup == executes /\ setupFileUsage /\ ~force
           IN
           /\ envFile' =
                IF executes THEN FileAfterRemoveRoleEnvVars(envFile, role)
                ELSE envFile
           /\ exampleFile' =
                IF executes THEN FileAfterRemoveRoleEnvVars(exampleFile, role)
                ELSE exampleFile
           /\ \E updateConfigAnswer \in (IF asksConfig THEN BOOLEAN ELSE {FALSE}),
                 updateSetupAnswer \in (IF asksSetup THEN BOOLEAN ELSE {FALSE}),
                 failing \in (IF executes THEN RemovalFailures(filesToRemove) ELSE {{}}) :
             LET shouldUpdatePlaywrightConfig ==
                   executes /\ playwrightConfigUsage /\ (force \/ updateConfigAnswer)
                 shouldUpdateSetupFile ==
                   executes /\ setupFileUsage /\ (force \/ updateSetupAnswer)
             IN
             \E configEdit \in (IF shouldUpdatePlaywrightConfig
                                THEN AgentOutcomes ELSE {"none"}),
                setupEdit \in (IF shouldUpdateSetupFile
                               THEN AgentOutcomes ELSE {"none"}) :
               /\ storageFiles' =
                    IF executes
                    THEN {f \in storageFiles :
                            f.path \notin RemovedPaths(filesToRemove, FALSE, failing)}
                    ELSE storageFiles
               /\ roleFolders' =
                    IF executes
                    THEN roleFolders \ RemovedPaths(filesToRemove, TRUE, failing)
                    ELSE roleFolders
               /\ configFile' =
                    IF executes THEN FileAfterRemoveRole(configFile, cache, roleName)
                    ELSE configFile
               /\ pwConfigFile' =
                    IF shouldUpdatePlaywrightConfig
                    THEN FileAfterAgentRemoves(pwConfigFile, roleName, configEdit)
                    ELSE pwConfigFile
               /\ setupFile' =
                    IF shouldUpdateSetupFile
                    THEN FileAfterAgentRemoves(setupFile, roleName, setupEdit)
                    ELSE setupFile
               /\ cmd' = [op |-> "eject", role |-> roleName, exit |-> 0,
                          executed |-> executes, dryRun |-> dryRun, force |-> force,
                          shouldProceed |-> shouldProceed,
                          configEdit |-> configEdit, setupEdit |-> setupEdit,
                          files |-> filesToRemove, failing |-> failing,
                          before |-> Before]
      /\ nCmds' = nCmds + 1
      /\ UNCHANGED <<moduleCache, calls, nCalls, detectVars, procVars>>

-----------------------------------------------------------------------------
(* cli/commands/eject.ts: ejectCommand without --role                      *)

CONFIG_FILE == "qa-director.config.ts"
EnvDir == ".env.qa"
SetupPath == "./tests/auth.setup.ts"

\* The credential-state files that lie in the auth directory.
InAuthDir(storage, authDir) ==
  {f \in storage : \E r \in RoleNames : f.path = StoragePathOf(authDir, r)}

FileToRemove(path, exists, isDirectory) ==
  [path |-> path, exists |-> exists, isDirectory |-> isDirectory]

\* for (const role of config.roles): the credential-state file and the
\* folder of every role, as collectRoleFilesToRemove lists them for one
RECURSIVE RoleFilesToRemove(_, _, _)
RoleFilesToRemove(roles, storage, folders) ==
  IF roles = <<>> THEN <<>>
  ELSE CollectRoleFilesToRemove(roles, Head(roles), storage, folders)
         \o RoleFilesToRemove(Tail(roles), storage, folders)

\* collectFilesToRemove(config): the configuration, the two env files, the
\* setup script, the files of every role, and the auth directory.  (The
\* workflow is listed only with GitHub Actions enabled; the directory of
\* temporary files holds nothing that is modelled.)
CollectFilesToRemove(config) ==
  <<FileToRemove(CONFIG_FILE, configFile # NoFile, FALSE),
    FileToRemove(EnvDir, envFile # NoFile, FALSE),
    FileToRemove(EnvDir \o ".example", exampleFile # NoFile, FALSE),
    FileToRemove(SetupPath, setupFile # NoFile, FALSE)>>
  \o RoleFilesToRemove(config.roles, storageFiles, roleFolders)
  \o <<FileToRemove(config.authDir, InAuthDir(storageFiles, config.authDir) # {}, TRUE)>>

\* ejectCommand(options) without --role.  The answer to the confirmation
\* and the removal that fails are chosen where the code comes to them.
EjectAll(dryRun, force) ==
  LET loaded == LoadConfig(configFile, NoModule)
      known == loaded # Null
      filesToRemove == IF known THEN CollectFilesToRemove(ValueOf(loaded)) ELSE <<>>
      asksProceed == known /\ ~dryRun /\ ~force
  IN  /\ nCmds < MaxCmds
      /\ \E shouldProceed \in (IF asksProceed THEN BOOLEAN ELSE {FALSE}) :
           LET executes == known /\ Proceeds(dryRun, force, shouldProceed)
           IN
           \E failing \in (IF executes THEN RemovalFailures(filesToRemove) ELSE {{}}) :
             LET files == RemovedPaths(filesToRemove, FALSE, failing)
                 directories == RemovedPaths(filesToRemove, TRUE, failing)
                 removed(path) == executes /\ path \in files
             IN
               /\ configFile' = IF removed(CONFIG_FILE) THEN NoFile ELSE configFile
               /\ envFile' = IF removed(EnvDir) THEN NoFile ELSE envFile
               /\ exampleFile' =
                    IF removed(EnvDir \o ".example") THEN NoFile ELSE exampleFile
               /\ setupFile' = IF removed(SetupPath) THEN NoFile ELSE setupFile
               /\ storageFiles' =
                    IF executes
                    THEN {f \in storageFiles :
                            /\ f.path \notin files
                            /\ \A d \in directories : f \notin InAuthDir(storageFiles, d)}
                    ELSE storageFiles
               /\ roleFolders' =
                    IF executes THEN roleFolders \ directories ELSE roleFolders
               /\ cmd' = [op |-> "ejectAll", exit |-> 0,
                          executed |-> executes, dryRun |-> dryRun, force |-> force,
                          shouldProceed |-> shouldProceed,
                          configEdit |-> "none", setupEdit |-> "none",
                          files |-> filesToRemove, failing |-> failing,
                          before |-> Before]
      /\ nCmds' = nCmds + 1
      /\ UNCHANGED <<pwConfigFile, moduleCache, calls, nCalls, detectVars, procVars>>

-----------------------------------------------------------------------------
(* core/claude-code.ts: callClaudeCode; cli/commands/generate.ts           *)

\* process.env.ANTHROPIC_API_KEY: NoKey when unset, else the key's text, the
\* prefix sk-ant- being one element of it
NoKey == <<>>
S_sk_ant == "sk-ant-"
ShellKey == <<S_sk_ant, "0">>

\* validate of the password prompt: the prompt returns only once this holds
ValidApiKey(input) == Trim(input) # <<>> /\ StartsWith(input, <<S_sk_ant>>)

\* what may be typed at the password prompt
TypedInputs == {<<>>, <<" ">>, <<"1">>, <<" ", S_sk_ant, "1">>,
                <<S_sk_ant>>, <<S_sk_ant, "1">>, <<S_sk_ant, "1", " ">>}

ApiKeyAnswers == {input \in TypedInputs : ValidApiKey(input)}

ERR_KEY_NOT_SET == "ANTHROPIC_API_KEY environment variable is not set"
ERR_NO_WORKING_DIR == "Working directory does not exist"
ERR_EXECUTION_FAILED == "Claude Code execution failed"
ERR_THROWN == "error.message"

\* what the query of the agent ends with: a success result, another result,
\* or an exception
QueryOutcomes == {"success", "failure", "throws"}

\* callClaudeCode(prompt, options) for the key the process has, whether cwd
\* exists, the answers to the two prompts and what the query does.  prompted
\* and invoked tell whether the user was asked for the key and whether the
\* agent was queried; key is process.env.ANTHROPIC_API_KEY afterwards.
CallClaudeCode(key, cwdExists, shouldProvideKey, apiKey, query) ==
  IF ~cwdExists
  THEN [success |-> FALSE, error |-> ERR_NO_WORKING_DIR,
        prompted |-> FALSE, invoked |-> FALSE, key |-> key]
  ELSE IF key = NoKey /\ ~shouldProvideKey
  THEN [success |-> FALSE, error |-> ERR_KEY_NOT_SET,
        prompted |-> TRUE, invoked |-> FALSE, key |-> key]
  ELSE [success |-> query = "success",
        error |-> CASE query = "success" -> NoError
                    [] query = "failure" -> ERR_EXECUTION_FAILED
                    [] OTHER -> ERR_THROWN,
        prompted |-> key = NoKey, invoked |-> TRUE,
        key |-> IF key = NoKey THEN Trim(apiKey) ELSE key]

\* dotenv.config({ path: ".env.qa" }) of the CLI entry: a line
\* ANTHROPIC_API_KEY=<text> of the env file sets the key unless the shell did
S_KEY_ASSIGN == <<"A", "N", "T", "H", "R", "O", "P", "I", "C", "_", "A", "P", "I", "_", "K", "E", "Y", "=">>

DotenvKey(file) ==
  IF file = NoFile THEN NoKey
  ELSE LET lines == SplitLines(ValueOf(file))
           assigning == {i \in DOMAIN lines : StartsWith(lines[i], S_KEY_ASSIGN)}
       IN  IF assigning = {} THEN NoKey
           ELSE LET first == CHOOSE i \in assigning : \A j \in assigning : i <= j
                IN  SubSeq(lines[first], Len(S_KEY_ASSIGN) + 1, Len(lines[first]))

\* validateProjectDirectory().valid
ValidProjectDirectory(file) == file # NoFile

\* options.role when the command is run without --role
NoRole == <<>>

\* a generate command that goes on after a failed browser automation (a mutant)
BrowserFailedNever(browser) == FALSE

\* if (!browserResult.success)
BrowserFailed(browser) == browser # "success"

\* the choices of the role list, asked only without --role and with roles
SelectableRoles(role) ==
  IF role = NoRole /\ LoginRoles # <<>> THEN DOMAIN LoginRoles ELSE {1}

\* How far generateCommand gets: the step at which it exits, or
\* "codeGeneration" when it reaches the call of the agent.
GenerateStage(shellKey, role, selected, browser, shouldGenerateTest) ==
  LET key == IF shellKey THEN ShellKey ELSE DotenvKey(envFile)
      config == LoadConfig(configFile, NoModule)
      roles == IF config = Null THEN <<>> ELSE ValueOf(config).roles
      chosen == IF role # NoRole THEN ValueOf(role)
                ELSE IF selected \in DOMAIN roles THEN roles[selected].name
                ELSE NoRole
  IN  IF ~ValidProjectDirectory(configFile) THEN "noProject"
      ELSE IF key = NoKey THEN "noKey"
      ELSE IF config = Null THEN "noConfig"
      ELSE IF role = NoRole /\ roles = <<>> THEN "noRoles"
      ELSE IF ~HasRole(roles, chosen) THEN "roleNotFound"
      ELSE IF BrowserFailed(browser) THEN "browserFailed"
      ELSE IF ~shouldGenerateTest THEN "cancelled"
      ELSE "codeGeneration"

\* generateCommand(description, options): shellKey tells whether the shell
\* exports the key; role is options.role, NoRole without --role; selected is
\* the answer to the role list; browser is what runBrowserAgent returns;
\* shouldGenerateTest is the answer to the confirmation; query is what the
\* coding agent's query does.  callClaudeCode is reached only with the key
\* set, so its two key prompts are never shown here and have no answers.
Generate(shellKey, role, selected, browser, shouldGenerateTest, query) ==
  /\ nCmds < MaxCmds
  /\ LET key == IF shellKey THEN ShellKey ELSE DotenvKey(envFile)
         config == LoadConfig(configFile, NoModule)
         roles == IF config = Null THEN <<>> ELSE ValueOf(config).roles
         chosen == IF role # NoRole THEN ValueOf(role)
                   ELSE IF selected \in DOMAIN roles THEN roles[selected].name
                   ELSE NoRole
         stage == GenerateStage(shellKey, role, selected, browser, shouldGenerateTest)
         result == CallClaudeCode(key, TRUE, FALSE, <<>>, query)
         called == stage = "codeGeneration"
         browserRan == stage \in {"browserFailed", "cancelled", "codeGeneration"}
     IN
      /\ selected \in SelectableRoles(role)
      /\ cmd' = [op |-> "generate", stage |-> stage, role |-> chosen,
                 browser |-> IF browserRan THEN browser ELSE "none",
                 confirmed |-> stage \in {"cancelled", "codeGeneration"}
                                 /\ shouldGenerateTest,
                 exit |-> IF stage = "cancelled" \/ (called /\ result.success)
                          THEN 0 ELSE 1,
                 keyMissing |-> key = NoKey,
                 browserRan |-> browserRan,
                 prompted |-> called /\ result.prompted,
                 invoked |-> called /\ result.invoked,
                 result |-> IF called THEN Some(result) ELSE <<>>,
                 setupEdit |-> "none", configEdit |-> "none",
                 before |-> Before]
      /\ nCmds' = nCmds + 1
      /\ UNCHANGED <<storageFiles, roleFolders, setupFile, pwConfigFile,
                     apiVars, detectVars, procVars>>

\* callClaudeCode called by a program that imports the package (index.ts
\* exports it): key is the key the calling process has.
CallAgent(key, cwdExists, shouldProvideKey, apiKey, query) ==
  /\ nCmds < MaxCmds
  /\ LET result == CallClaudeCode(key, cwdExists, shouldProvideKey, apiKey, query)
     IN
      /\ cmd' = [op |-> "callClaudeCode", exit |-> 0,
                 keyMissing |-> key = NoKey, cwdExists |-> cwdExists,
                 prompted |-> result.prompted, invoked |-> result.invoked,
                 result |-> Some(result),
                 setupEdit |-> "none", configEdit |-> "none",
                 before |-> Before]
      /\ nCmds' = nCmds + 1
      /\ UNCHANGED <<storageFiles, roleFolders, setupFile, pwConfigFile,
                     apiVars, detectVars, procVars>>

-----------------------------------------------------------------------------
(* The commands run one after another, each in a process of its own.       *)

CliRoles == {RoleUser, RoleAdmin}

\* The admin role as a login registers it that recorded TranscriptBob,
\* replaced both values and made the role folder.
AdminRole ==
  MkRole(RoleAdmin, StoragePathOf(AuthDirA, RoleAdmin),
         <<QA_ADMIN_EMAIL, QA_ADMIN_PASSWORD>>, Some(RoleFolderOf(RoleAdmin)))

\* The user role as a login registers it that recorded TranscriptBob,
\* replaced both values and made no role folder.
UserRole ==
  MkRole(RoleUser, StoragePathOf(AuthDirA, RoleUser),
         <<QA_USER_EMAIL, QA_USER_PASSWORD>>, Null)

\* The user role as a login registers it whose recording filled a field
\* named "Admin Email" and a password field, replaced both values and made
\* no role folder: generateEnvVarName names the first QA_ADMIN_EMAIL.
UserRoleAdminField ==
  MkRole(RoleUser, StoragePathOf(AuthDirA, RoleUser),
         <<QA_ADMIN_EMAIL, QA_USER_PASSWORD>>, Null)

EnvWithAdmin == ENV_TEMPLATE \o EnvLine(QA_ADMIN_EMAIL) \o EnvLine(QA_ADMIN_PASSWORD)

EnvWithBoth == EnvWithAdmin \o EnvLine(QA_USER_EMAIL) \o EnvLine(QA_USER_PASSWORD)

\* the env file after the logins of admin and of the user of UserRoleAdminField:
\* updateEnvFiles adds no second QA_ADMIN_EMAIL line
EnvWithShared == EnvWithAdmin \o EnvLine(QA_USER_PASSWORD)

\* The projects a command can find: before init (nothing there); after init
\* (the configuration with no roles and GitHub Actions off, both env files
\* from the template, the setup script and the Playwright config without
\* roles); after init with the env files deleted; after init with the setup
\* script and the Playwright config deleted; after init and a login of admin;
\* after init and logins of admin and of user; after init and logins of admin
\* and of a user who shares QA_ADMIN_EMAIL with admin; after init with a
\* comment line added to the env file by hand.
InitCli ==
  /\ \/ /\ configFile = NoFile
        /\ envFile = NoFile /\ exampleFile = NoFile
        /\ setupFile = NoFile /\ pwConfigFile = NoFile
        /\ storageFiles = {} /\ roleFolders = {}
     \/ /\ configFile = Some(InitialConfig(AuthDirA, FALSE))
        /\ envFile \in {NoFile, Some(ENV_TEMPLATE)} /\ exampleFile = envFile
        /\ setupFile = Some({}) /\ pwConfigFile = Some({})
        /\ storageFiles = {} /\ roleFolders = {}
     \/ /\ configFile = Some(InitialConfig(AuthDirA, FALSE))
        /\ envFile = Some(ENV_TEMPLATE) /\ exampleFile = Some(ENV_TEMPLATE)
        /\ setupFile = NoFile /\ pwConfigFile = NoFile
        /\ storageFiles = {} /\ roleFolders = {}
     \/ /\ configFile = Some(MkConfig(<<AdminRole>>, AuthDirA, FALSE))
        /\ envFile = Some(EnvWithAdmin) /\ exampleFile = Some(EnvWithAdmin)
        /\ setupFile = Some({RoleAdmin}) /\ pwConfigFile = Some({RoleAdmin})
        /\ storageFiles = {[path |-> AdminRole.storagePath, session |-> 0]}
        /\ roleFolders = {RoleFolderOf(RoleAdmin)}
     \/ /\ configFile = Some(MkConfig(<<AdminRole, UserRole>>, AuthDirA, FALSE))
        /\ envFile = Some(EnvWithBoth) /\ exampleFile = Some(EnvWithBoth)
        /\ setupFile = Some({RoleAdmin, RoleUser})
        /\ pwConfigFile = Some({RoleAdmin, RoleUser})
        /\ storageFiles = {[path |-> AdminRole.storagePath, session |-> 0],
                           [path |-> UserRole.storagePath, session |-> 0]}
        /\ roleFolders = {RoleFolderOf(RoleAdmin)}
     \/ /\ configFile = Some(MkConfig(<<AdminRole, UserRoleAdminField>>, AuthDirA, FALSE))
        /\ envFile = Some(EnvWithShared) /\ exampleFile = Some(EnvWithShared)
        /\ setupFile = Some({RoleAdmin, RoleUser})
        /\ pwConfigFile = Some({RoleAdmin, RoleUser})
        /\ storageFiles = {[path |-> AdminRole.storagePath, session |-> 0],
                           [path |-> UserRole.storagePath, session |-> 0]}
        /\ roleFolders = {RoleFolderOf(RoleAdmin)}
     \/ /\ configFile = Some(InitialConfig(AuthDirA, FALSE))
        /\ envFile = Some(ENV_TEMPLATE \o EnvMention)
        /\ exampleFile = Some(ENV_TEMPLATE)
        /\ setupFile = Some({}) /\ pwConfigFile = Some({})
        /\ storageFiles = {} /\ roleFolders = {}
  /\ moduleCache = NoModule
  /\ calls = <<>>
  /\ nCalls = 0
  /\ cmd = [op |-> "none"]
  /\ nCmds = 0
  /\ IdleDetect
  /\ IdleProcs

NextCli ==
  \/ \E role \in CliRoles, refresh \in BOOLEAN : Login(role, refresh)
  \/ \E role \in CliRoles, dryRun, force \in BOOLEAN : EjectRole(role, dryRun, force)
  \/ \E dryRun, force \in BOOLEAN : EjectAll(dryRun, force)
  \/ \E shellKey \in BOOLEAN, role \in {NoRole} \cup {Some(r) : r \in CliRoles} :
       \E selected \in SelectableRoles(role) :
         \E browser \in
              (IF GenerateStage(shellKey, role, selected, "failure", FALSE) = "browserFailed"
               THEN {"success", "failure"} ELSE {"failure"}) :
           \E shouldGenerateTest \in
                (IF GenerateStage(shellKey, role, selected, browser, FALSE) = "cancelled"
                 THEN BOOLEAN ELSE {FALSE}) :
             \E query \in
                  (IF GenerateStage(shellKey, role, selected, browser, shouldGenerateTest)
                        = "codeGeneration"
                   THEN QueryOutcomes ELSE {"success"}) :
               Generate(shellKey, role, selected, browser, shouldGenerateTest, query)
  \/ \E key \in {NoKey, ShellKey}, cwdExists \in BOOLEAN :
       \E shouldProvideKey \in (IF cwdExists /\ key = NoKey THEN BOOLEAN ELSE {FALSE}) :
         \E apiKey \in (IF shouldProvideKey THEN ApiKeyAnswers ELSE {<<>>}),
            query \in (IF cwdExists /\ (key # NoKey \/ shouldProvideKey)
                       THEN QueryOutcomes ELSE {"success"}) :
           CallAgent(key, cwdExists, shouldProvideKey, apiKey, query)

SpecCli == InitCli /\ [][NextCli]_vars

-----------------------------------------------------------------------------
(* Claims about login and eject                                            *)

RolesBefore == RolesOf(cmd.before.config)

EjectExecuted == cmd.op = "eject" /\ cmd.executed

\* The credential-state path the registry held for a role before the command.
StoragePathBefore(roleName) ==
  LET i == CHOOSE j \in DOMAIN RolesBefore : RolesBefore[j].name = roleName
  IN  RolesBefore[i].storagePath

LoginOfNewRole == cmd.op = "login" /\ cmd.handled

EditFailed(outcome) == outcome \in {"failure", "throws"}

\* Some line of the file is the entry of the variable.
HasEntry(file, envVar) ==
  /\ file # NoFile
  /\ \E i \in DOMAIN SplitLines(ValueOf(file)) :
       StartsWith(SplitLines(ValueOf(file))[i], envVar \o <<"=">>)

\* C6: when, in a login of a new role, the edit of the setup script or of the
\* Playwright config failed (success=false or a throw), the role is in the
\* persisted registry, every variable chosen for replacement has its entry in
\* the env file and in the example file, and the exit status is 0.
C6_EditFailureDoesNotAbort ==
  (LoginOfNewRole /\ (EditFailed(cmd.setupEdit) \/ EditFailed(cmd.configEdit))) =>
    /\ HasRole(RolesOf(configFile), cmd.role)
    /\ \A i \in DOMAIN cmd.envVarNames :
         HasEntry(envFile, cmd.envVarNames[i]) /\ HasEntry(exampleFile, cmd.envVarNames[i])
    /\ cmd.exit = 0

\* C6 witness: the setup edit threw, the config edit returned success=false,
\* two variables had been chosen, and the role is registered.
C6_Witness ==
  /\ LoginOfNewRole
  /\ cmd.setupEdit = "throws"
  /\ cmd.configEdit = "failure"
  /\ Len(cmd.envVarNames) = 2
  /\ HasRole(RolesOf(configFile), cmd.role)
  /\ cmd.exit = 0

\* The end-to-end scenario: a login of the new role user that recorded the
\* transcript filling Email with alice@example.com and Password with s3cr3t!,
\* the user accepted the replacement, and the env files were written.
Scenario ==
  /\ LoginOfNewRole
  /\ cmd.role = RoleUser
  /\ cmd.loginFlow.code = TranscriptAlice
  /\ cmd.replaced
  /\ cmd.failure # "updateEnvFiles"

\* The text of the env file the command started from: the template when the
\* files were not there.
EnvTextBefore ==
  IF cmd.before.env = NoFile THEN ENV_TEMPLATE ELSE ValueOf(cmd.before.env)

-----------------------------------------------------------------------------
(* core/env-detection.ts: generateEnvVarName and deduplicateEnvVars, each  *)
(* called on arguments of its own                                          *)

ValAdminMail == <<"A", "d", "m", "i", "n", "@", "c", "o", "r", "p", ".", "i", "o">>
RoleCheckout == <<"c", "h", "e", "c", "k", "o", "u", "t">>
RoleQaLead == <<"Q", "a", "-", "l", "e", "a", "d">>

\* Arguments of generateEnvVarName: any value, either kind, a field context
\* or none (<<>>), a role name or none (<<>>).
NameArgs ==
  {[fn |-> "generateEnvVarName", value |-> v, type |-> t, fieldContext |-> c, roleName |-> r] :
     v \in Values \cup {ValAdminMail}, t \in {"email", "password"},
     c \in {FieldEmail, FieldPassword, FieldAdminEmail, FieldSearch, <<>>},
     r \in {RoleCheckout, RoleQaLead, RoleSpelling(RoleAdmin), <<>>}}

\* The entries lists given to deduplicateEnvVars are made of.
EnvVarEntries ==
  {EnvVar(QA_USER_EMAIL, v, "email") : v \in {ValBob, ValSecret, ValHunter}}
    \cup {EnvVar(QA_USER_PASSWORD, v, "password") : v \in {ValBob, ValSecret, ValHunter}}
    \cup {EnvVar(QA_ADMIN_EMAIL, v, "email") : v \in {ValBob, ValSecret}}

MaxEntries == 3

RECURSIVE EnvVarListsOfLen(_)
EnvVarListsOfLen(n) ==
  IF n = 0 THEN {<<>>}
  ELSE {Append(l, e) : l \in EnvVarListsOfLen(n - 1), e \in EnvVarEntries}

DedupArgs ==
  {[fn |-> "deduplicateEnvVars", envVars |-> l] :
     l \in UNION {EnvVarListsOfLen(n) : n \in 0..MaxEntries}}

InitFunctions ==
  /\ fnIn \in {Some(a) : a \in NameArgs \cup DedupArgs}
  /\ fnOut = <<>>
  /\ detectIn = <<>> /\ detectOut = <<>> /\ processedCode = <<>>
  /\ IdleApi
  /\ IdleCli
  /\ IdleProcs

\* generateEnvVarName(value, type, fieldContext, roleName)
GenerateName ==
  /\ fnIn # <<>> /\ fnOut = <<>>
  /\ ValueOf(fnIn).fn = "generateEnvVarName"
  /\ LET a == ValueOf(fnIn)
     IN  fnOut' = Some(GenerateEnvVarName(a.value, a.type, a.fieldContext, a.roleName))
  /\ UNCHANGED <<fnIn, detectIn, detectOut, processedCode, apiVars, cliVars, procVars>>

\* deduplicateEnvVars(envVars)
Dedup ==
  /\ fnIn # <<>> /\ fnOut = <<>>
  /\ ValueOf(fnIn).fn = "deduplicateEnvVars"
  /\ fnOut' = Some(DeduplicateEnvVars(ValueOf(fnIn).envVars))
  /\ UNCHANGED <<fnIn, detectIn, detectOut, processedCode, apiVars, cliVars, procVars>>

NextFunctions == GenerateName \/ Dedup

SpecFunctions == InitFunctions /\ [][NextFunctions]_vars

-----------------------------------------------------------------------------
(* Claims about generateEnvVarName and deduplicateEnvVars                  *)

Named == fnIn # <<>> /\ fnOut # <<>> /\ ValueOf(fnIn).fn = "generateEnvVarName"
Deduplicated == fnIn # <<>> /\ fnOut # <<>> /\ ValueOf(fnIn).fn = "deduplicateEnvVars"

ContainsAdmin(text) ==
  \E i \in 1..Len(text) :
    /\ i + 4 <= Len(text)
    /\ text[i] \in {"a", "A"} /\ text[i + 1] \in {"d", "D"} /\ text[i + 2] \in {"m", "M"}
    /\ text[i + 3] \in {"i", "I"} /\ text[i + 4] \in {"n", "N"}

KindSuffix(type) == IF type = "email" THEN S_EMAIL ELSE S_PASSWORD

\* C11: the name generateEnvVarName returns is QA_ADMIN_EMAIL or
\* QA_ADMIN_PASSWORD when the field context or the value contains admin in
\* any case, whatever the role; otherwise it is QA_, the role in upper case
\* (USER when no role is given), and _EMAIL or _PASSWORD after the kind.
C11_NamingByKindContextValueRole ==
  Named =>
    LET a == ValueOf(fnIn)
    IN  IF ContainsAdmin(a.fieldContext) \/ ContainsAdmin(a.value)
        THEN ValueOf(fnOut) = <<"Q", "A", "_", "A", "D", "M", "I", "N">> \o KindSuffix(a.type)
        ELSE ValueOf(fnOut) =
               <<"Q", "A", "_">>
                 \o (IF a.roleName = <<>> THEN <<"U", "S", "E", "R">> ELSE ToUpperCase(a.roleName))
                 \o KindSuffix(a.type)

\* C11 witness: role checkout and an e-mail field without admin give
\* QA_CHECKOUT_EMAIL.
C11_Witness ==
  /\ Named
  /\ ValueOf(fnIn).roleName = RoleCheckout
  /\ ValueOf(fnIn).fieldContext = FieldEmail
  /\ ValueOf(fnIn).value = ValBob
  /\ ValueOf(fnIn).type = "email"
  /\ ValueOf(fnOut) = <<"Q", "A", "_", "C", "H", "E", "C", "K", "O", "U", "T", "_", "E", "M", "A", "I", "L">>

DedupInput == ValueOf(fnIn).envVars
DedupOutput == ValueOf(fnOut)

\* The entries of the input at the positions in K, in input order.
EntriesAt(K) ==
  [n \in 1..Cardinality(K) |->
     DedupInput[CHOOSE i \in K : Cardinality({j \in K : j <= i}) = n]]

SameNameOrValue(i, j) ==
  DedupInput[i].name = DedupInput[j].name \/ DedupInput[i].value = DedupInput[j].value

\* C12 as stated: the output is the input without every entry whose name or
\* value occurs in an earlier entry of the input, in input order.
C12_DropsWhatOccurredEarlier ==
  Deduplicated =>
    DedupOutput =
      EntriesAt({i \in DOMAIN DedupInput : \A j \in 1..(i - 1) : ~SameNameOrValue(i, j)})

\* C12 amended: the output is the input without every entry whose name or
\* value occurs in an earlier entry that was itself kept, in input order.
C12_DropsWhatWasKeptEarlier ==
  Deduplicated =>
    \E K \in SUBSET DOMAIN DedupInput :
      /\ \A i \in DOMAIN DedupInput :
           i \in K <=> \A j \in K : j < i => ~SameNameOrValue(i, j)
      /\ DedupOutput = EntriesAt(K)

\* C12 witness: the second entry repeats the name of the first and is
\* dropped; the third repeats only the value of the second and is kept.
C12_Witness ==
  /\ Deduplicated
  /\ DedupInput = <<EnvVar(QA_USER_EMAIL, ValBob, "email"),
                    EnvVar(QA_USER_EMAIL, ValSecret, "email"),
                    EnvVar(QA_USER_PASSWORD, ValSecret, "password")>>
  /\ DedupOutput = <<EnvVar(QA_USER_EMAIL, ValBob, "email"),
                     EnvVar(QA_USER_PASSWORD, ValSecret, "password")>>

-----------------------------------------------------------------------------
(* Claims about the result of one detection pass and its replacement       *)

DetectRole == ValueOf(detectIn).roleName
ReplaceRan == DetectRan /\ processedCode # <<>>
Processed == ValueOf(processedCode)

\* C13: in the list one detectEnvVars pass returns, no two entries share a
\* name and no two entries share a value.
C13_NamesAndValuesUnique ==
  DetectRan =>
    \A i, j \in DOMAIN Detected :
      (Detected[i].name = Detected[j].name \/ Detected[i].value = Detected[j].value)
        => i = j

\* C13 witness: two fills on the e-mail field, with different values that
\* both get the e-mail name of the role, and one entry is returned.
C13_Witness ==
  /\ DetectRan
  /\ DetectCode = <<Stmt(FieldEmail, "fill", ValBob), Stmt(FieldEmail, "fill", ValSecret)>>
  /\ Len(Detected) = 1
  /\ Detected[1].value = ValBob

\* The variable detected for this text, if any.
VariableOf(text) == {n \in DOMAIN Detected : Detected[n].value = text}

\* What a quoted literal of the transcript must have become: the reference
\* process.env.<name>, outside quotes, when its text is the value of a
\* detected variable, and itself otherwise.
Redacted(lit) ==
  IF VariableOf(lit.text) # {}
  THEN [quoted |-> FALSE,
        text |-> <<"p", "r", "o", "c", "e", "s", "s", ".", "e", "n", "v", ".">>
                   \o Detected[CHOOSE n \in VariableOf(lit.text) : TRUE].name]
  ELSE lit

\* C14: after replaceWithEnvVars on a transcript and the variables detected
\* from it, every quoted literal whose text is the value of a variable has
\* become the reference process.env.<name> of that variable, once per
\* occurrence, so that no such literal is left; everything else is unchanged.
C14_Redaction ==
  ReplaceRan =>
    /\ Len(Processed) = Len(DetectCode)
    /\ \A i \in DOMAIN DetectCode :
         /\ Processed[i].act = DetectCode[i].act
         /\ Processed[i].name = Redacted(Quoted(DetectCode[i].name))
         /\ Processed[i].val = Redacted(Quoted(DetectCode[i].val))

\* The match a returned credential was made from: the first match, in the
\* order the matches were made, with its value and kind.
MatchOf(i) ==
  LET ms == AllMatches(DetectCode)
      of == {n \in DOMAIN ms : ms[n].value = Detected[i].value /\ ms[n].type = Detected[i].type}
  IN  ms[CHOOSE n \in of : \A k \in of : n <= k]

\* C15: when the match of one returned credential begins earlier in the
\* transcript than the match of another, it precedes the other in the
\* returned list, whatever the kinds of the two.
C15_FirstMatchOrder ==
  DetectRan =>
    \A a, b \in DOMAIN Detected :
      MatchOf(a).locator < MatchOf(b).locator => a < b

\* C16: every returned credential has the value of a fill in a statement
\* whose own locator is a field of the credential's kind, and the name made
\* from that locator's field context.
C16_ValueFromSameStatement ==
  DetectRan =>
    \A i \in DOMAIN Detected :
      \E k \in DOMAIN DetectCode :
        /\ IsLiteralFill(DetectCode[k])
        /\ DetectCode[k].val = Detected[i].value
        /\ FieldNameMatches(Detected[i].type, DetectCode[k].name)
        /\ Detected[i].name =
             GenerateEnvVarName(Detected[i].value, Detected[i].type, DetectCode[k].name, DetectRole)

-----------------------------------------------------------------------------
(* Claims about the commands and what they leave untouched                 *)

EjectRan == cmd.op \in {"eject", "ejectAll"}

\* Every persisted artifact is as the command found it.
NothingChanged ==
  /\ configFile = cmd.before.config
  /\ envFile = cmd.before.env
  /\ exampleFile = cmd.before.example
  /\ storageFiles = cmd.before.storage
  /\ roleFolders = cmd.before.folders
  /\ setupFile = cmd.before.setup
  /\ pwConfigFile = cmd.before.pwConfig

AgentInvoked == cmd.setupEdit \in AgentOutcomes \/ cmd.configEdit \in AgentOutcomes

LoginRan == cmd.op = "login"

\* C18: a login with --refresh of a role that is in the registry leaves the
\* configuration, both env files, the role folders, the setup script and the
\* Playwright config as they were and invokes no coding agent, whether or
\* not the login was recorded again; with --refresh of a role that is not in
\* the registry the command exits non-zero, has recorded nothing and has
\* changed nothing.
C18_RefreshKeepsRegistry ==
  (LoginRan /\ cmd.refresh /\ cmd.before.config # NoFile) =>
    IF HasRole(RolesBefore, cmd.role)
    THEN /\ configFile = cmd.before.config
         /\ envFile = cmd.before.env /\ exampleFile = cmd.before.example
         /\ roleFolders = cmd.before.folders
         /\ setupFile = cmd.before.setup /\ pwConfigFile = cmd.before.pwConfig
         /\ ~AgentInvoked
    ELSE /\ cmd.exit # 0
         /\ cmd.loginFlow = NotRecorded
         /\ NothingChanged

\* C18 witness: the registered role admin was refreshed and recorded again;
\* its credential state is the new one and the configuration is the old one.
C18_Witness ==
  /\ LoginRan /\ cmd.refresh
  /\ cmd.role = RoleAdmin
  /\ cmd.before.config # NoFile
  /\ HasRole(RolesBefore, RoleAdmin)
  /\ cmd.loginFlow.captured
  /\ storageFiles # cmd.before.storage
  /\ configFile = cmd.before.config

CommandRan == cmd.op \in {"login", "generate", "eject", "ejectAll"}

NoRecordingNoAgent ==
  /\ ~AgentInvoked
  /\ cmd.op = "login" => cmd.loginFlow = NotRecorded
  /\ cmd.op = "generate" => (~cmd.browserRan /\ ~cmd.invoked)

\* C19: a login, a generate or an eject (of everything or of one role) run
\* where no configuration file exists ends with a non-zero exit status and
\* has recorded nothing, called no agent and changed no file.
C19_MissingConfigFatal ==
  (CommandRan /\ cmd.before.config = NoFile) =>
    (cmd.exit # 0 /\ NoRecordingNoAgent /\ NothingChanged)

KeyMissingWhereNeeded ==
  \/ cmd.op = "generate" /\ cmd.stage # "noProject" /\ cmd.keyMissing
  \/ cmd.op = "callClaudeCode" /\ cmd.cwdExists /\ cmd.keyMissing

\* C20: whenever the generate command (run in a project) or a call of
\* callClaudeCode (with an existing working directory) finds
\* ANTHROPIC_API_KEY unset, the user is asked whether to supply the key; if
\* the user declines, callClaudeCode returns success = false with the error
\* 'ANTHROPIC_API_KEY environment variable is not set' and the agent is not
\* queried; if the user supplies a key, the agent is queried with that key
\* set.
C20_MissingKeyPrompted ==
  KeyMissingWhereNeeded =>
    /\ cmd.prompted
    /\ IF cmd.invoked
       THEN ValueOf(cmd.result).key # NoKey
       ELSE /\ ~ValueOf(cmd.result).success
            /\ ValueOf(cmd.result).error = ERR_KEY_NOT_SET


-----------------------------------------------------------------------------
(* core/claude-code.ts: callClaudeCode from the query on (lines 96-176)    *)

\* SDK messages.  A text is a tuple of characters; content is the type of
\* content[0] of an assistant message and text its text.
AssistantMsg(content, text) ==
  [type |-> "assistant", content |-> content, text |-> text]

ResultMsg(subtype, duration_ms, total_cost_usd, num_turns) ==
  [type |-> "result", subtype |-> subtype, duration_ms |-> duration_ms,
   total_cost_usd |-> total_cost_usd, num_turns |-> num_turns]

SystemMsg == [type |-> "system"]

TextDone == <<"d", "o", "n", "e">>

SDKMessages ==
  {SystemMsg, AssistantMsg("text", TextDone), AssistantMsg("text", <<>>),
   AssistantMsg("tool_use", <<>>),
   ResultMsg("success", 7, 3, 2), ResultMsg("success", 0, 0, 1),
   ResultMsg("error_max_turns", 9, 4, 10),
   ResultMsg("error_during_execution", 5, 1, 1)}

\* what the for await over query(...) ends with: nothing thrown, an Error
\* with its message, or a thrown value that is no Error
NoThrow == <<>>
ThrownError(message) == Some([isError |-> TRUE, message |-> message])
ThrownValue == Some([isError |-> FALSE, message |-> <<>>])
MsgNetwork == <<"n", "e", "t">>
Thrown == {NoThrow, ThrownError(MsgNetwork), ThrownError(<<>>), ThrownValue}

MaxMsgs == 2

RECURSIVE MessagesOfLen(_)
MessagesOfLen(n) ==
  IF n = 0 THEN {<<>>}
  ELSE {Append(l, msg) : l \in MessagesOfLen(n - 1), msg \in SDKMessages}

\* a run of the query: the messages it yields, how it ends, and maxTurns
QueryRuns ==
  {[fn |-> "query", messages |-> l, thrown |-> t, maxTurns |-> n] :
     l \in UNION {MessagesOfLen(k) : k \in 0..MaxMsgs}, t \in Thrown, n \in {10}}

\* text.slice(0, 200)
SliceLen == 200
Slice(text) == SubSeq(text, 1, IF Len(text) < SliceLen THEN Len(text) ELSE SliceLen)

S_failed == <<"Claude Code execution failed">>
S_unknown == <<"Unknown error">>

\* the error message of a stream that did not end with a success result
ErrorMessage(messages, maxTurns) ==
  LET lastMessage == IF messages = <<>> THEN <<>> ELSE Some(messages[Len(messages)])
      base == IF lastMessage # <<>> /\ ValueOf(lastMessage).type = "result"
              THEN CASE ValueOf(lastMessage).subtype = "error_max_turns" ->
                          <<"Maximum turns (", maxTurns, ") reached without completion">>
                     [] ValueOf(lastMessage).subtype = "error_during_execution" ->
                          <<"Error occurred during execution">>
                     [] OTHER -> S_failed
              ELSE S_failed
      assistants == {i \in DOMAIN messages : messages[i].type = "assistant"}
      lastAssistant == messages[CHOOSE i \in assistants : \A j \in assistants : i >= j]
  IN  IF assistants # {} /\ lastAssistant.content = "text" /\ lastAssistant.text # <<>>
      THEN base \o <<": ">> \o Slice(lastAssistant.text) \o <<"...">>
      ELSE base

\* a result that ignores the subtype of the last message (a mutant)
EndsWithAnyResult(messages) ==
  messages # <<>> /\ messages[Len(messages)].type = "result"

\* lastMessage?.type === "result" && lastMessage.subtype === "success"
EndsWithSuccess(messages) ==
  /\ messages # <<>>
  /\ messages[Len(messages)].type = "result"
  /\ messages[Len(messages)].subtype = "success"

\* the ClaudeCodeResult of a run; error is <<>> when the result has none
ResultOfQuery(run) ==
  LET messages == run.messages
      last == messages[Len(messages)]
      isResult == messages # <<>> /\ last.type = "result"
  IN  IF run.thrown # NoThrow
      THEN [success |-> FALSE, duration |-> 0, cost |-> 0, turns |-> 0,
            error |-> Some(IF ValueOf(run.thrown).isError
                           THEN ValueOf(run.thrown).message ELSE S_unknown),
            messages |-> messages]
      ELSE IF EndsWithSuccess(messages)
      THEN [success |-> TRUE, duration |-> last.duration_ms,
            cost |-> last.total_cost_usd, turns |-> last.num_turns,
            error |-> <<>>, messages |-> messages]
      ELSE [success |-> FALSE,
            duration |-> IF isResult THEN last.duration_ms ELSE 0,
            cost |-> IF isResult THEN last.total_cost_usd ELSE 0,
            turns |-> IF isResult THEN last.num_turns ELSE 0,
            error |-> Some(ErrorMessage(messages, run.maxTurns)),
            messages |-> messages]

InitAgent ==
  /\ fnIn \in {Some(r) : r \in QueryRuns}
  /\ fnOut = <<>>
  /\ detectIn = <<>> /\ detectOut = <<>> /\ processedCode = <<>>
  /\ IdleApi
  /\ IdleCli
  /\ IdleProcs

\* callClaudeCode with the key set, from the query on
RunQuery ==
  /\ fnIn # <<>> /\ fnOut = <<>>
  /\ ValueOf(fnIn).fn = "query"
  /\ fnOut' = Some(ResultOfQuery(ValueOf(fnIn)))
  /\ UNCHANGED <<fnIn, detectIn, detectOut, processedCode, apiVars, cliVars, procVars>>

NextAgent == RunQuery

SpecAgent == InitAgent /\ [][NextAgent]_vars

-----------------------------------------------------------------------------
(* Claims about the agent calls and the failures of single steps           *)

GenerateRan == cmd.op = "generate"

\* C21: in a generate command, a failed browser automation ends the process
\* with a non-zero exit status and without a call of the code-generation
\* agent; the code-generation agent is called only after the browser
\* automation succeeded for a role of the registry and the user confirmed;
\* a failed code generation ends the process with a non-zero exit status.
C21_GenerateStepsFatalAndOrdered ==
  GenerateRan =>
    /\ cmd.browser = "failure" => (cmd.exit # 0 /\ ~cmd.invoked)
    /\ cmd.invoked => /\ cmd.browser = "success"
                      /\ HasRole(RolesBefore, cmd.role)
                      /\ cmd.confirmed
    /\ (cmd.invoked /\ ~ValueOf(cmd.result).success) => cmd.exit # 0

\* C21 witness: the browser automation succeeded for a registered role, the
\* user confirmed, the code-generation agent ran and failed, and the exit
\* status is 1.
C21_Witness ==
  /\ GenerateRan
  /\ cmd.browser = "success" /\ cmd.confirmed
  /\ cmd.invoked /\ ~ValueOf(cmd.result).success
  /\ cmd.exit = 1

QueryRan == fnIn # <<>> /\ fnOut # <<>> /\ ValueOf(fnIn).fn = "query"
Run == ValueOf(fnIn)
Returned == ValueOf(fnOut)
LastOfRun == Run.messages[Len(Run.messages)]
EndedWithSuccess ==
  /\ Run.thrown = NoThrow
  /\ Run.messages # <<>>
  /\ LastOfRun.type = "result" /\ LastOfRun.subtype = "success"

\* what C22 says of every run, but for the error of a failed run
ResultMapsStream ==
  /\ Returned.success <=> EndedWithSuccess
  /\ Returned.messages = Run.messages
  /\ Returned.success =>
       /\ Returned.duration = LastOfRun.duration_ms
       /\ Returned.cost = LastOfRun.total_cost_usd
       /\ Returned.turns = LastOfRun.num_turns

\* C22 as stated: callClaudeCode returns success = true with duration, cost
\* and turns of the final message and all streamed messages exactly when the
\* stream ends without an exception on a result of subtype success; in every
\* other case it returns success = false with a non-empty error, which for
\* an exception is the exception's message.
C22_FailureErrorNonEmpty ==
  QueryRan =>
    /\ ResultMapsStream
    /\ ~Returned.success =>
         /\ Returned.error # <<>> /\ ValueOf(Returned.error) # <<>>
         /\ Run.thrown # NoThrow =>
              ValueOf(Returned.error) = ValueOf(Run.thrown).message

\* C22 amended: the same mapping of the stream; a failed run without an
\* exception has a non-empty error; a run that threw an Error has that
\* Error's message as its error, empty if the message is empty; a run that
\* threw a value that is no Error has the error 'Unknown error'.
C22_FailureErrorFromException ==
  QueryRan =>
    /\ ResultMapsStream
    /\ ~Returned.success =>
         /\ Returned.error # <<>>
         /\ Run.thrown = NoThrow => ValueOf(Returned.error) # <<>>
         /\ (Run.thrown # NoThrow /\ ValueOf(Run.thrown).isError) =>
              ValueOf(Returned.error) = ValueOf(Run.thrown).message
         /\ (Run.thrown # NoThrow /\ ~ValueOf(Run.thrown).isError) =>
              ValueOf(Returned.error) = S_unknown

\* C22 witness: a run of two messages that ended on a success result and
\* was returned as a success with that result's duration.
C22_Witness ==
  /\ QueryRan
  /\ Len(Run.messages) = 2 /\ EndedWithSuccess
  /\ Returned.success /\ Returned.duration = 7


\* The listed file is no longer on disk.
Gone(file) ==
  CASE file.path = CONFIG_FILE -> configFile = NoFile
    [] file.path = EnvDir -> envFile = NoFile
    [] file.path = EnvDir \o ".example" -> exampleFile = NoFile
    [] file.path = SetupPath -> setupFile = NoFile
    [] OTHER -> /\ file.path \notin roleFolders
                /\ \A f \in storageFiles : f.path # file.path

RemovalFailed == EjectRan /\ cmd.executed /\ cmd.failing # {}

\* C23: when, in an executed eject, the removal of one listed file fails,
\* every other listed file that existed is gone afterwards, those listed
\* after the failing one included; and after an executed eject of a role the
\* role is out of the persisted registry whether or not a removal failed.
C23_RemovalFailureIsolated ==
  /\ RemovalFailed =>
       \A i \in DOMAIN cmd.files :
         (cmd.files[i].exists /\ cmd.files[i].path \notin cmd.failing)
           => Gone(cmd.files[i])
  /\ (RemovalFailed /\ cmd.op = "eject") => ~HasRole(RolesOf(configFile), cmd.role)

\* C23 witness: in an eject of role admin the removal of the credential-state
\* file, listed first, failed; the file is still there, the role folder,
\* listed second, is gone, and admin is out of the registry.
C23_Witness ==
  /\ RemovalFailed /\ cmd.op = "eject" /\ cmd.role = RoleAdmin
  /\ Len(cmd.files) = 2
  /\ cmd.failing = {cmd.files[1].path}
  /\ \E f \in storageFiles : f.path = cmd.files[1].path
  /\ cmd.files[2].exists /\ cmd.files[2].path \notin roleFolders
  /\ ~HasRole(RolesOf(configFile), RoleAdmin)


StepFailed ==
  \/ LoginOfNewRole /\ (cmd.failure # "none" \/ EditFailed(cmd.setupEdit)
                                             \/ EditFailed(cmd.configEdit))
  \/ EjectExecuted /\ (cmd.failing # {} \/ EditFailed(cmd.setupEdit)
                                        \/ EditFailed(cmd.configEdit))

\* C24: when one step of a login of a new role (the update of the env files,
\* the creation of the role folder, the edit of the setup script, the edit of
\* the Playwright config) or of an executed role eject (a removal, an edit)
\* fails, the command still ends with exit status 0 and the role is in the
\* persisted registry after the login, out of it after the eject.
C24_StepFailuresContained ==
  StepFailed =>
    /\ cmd.exit = 0
    /\ cmd.op = "login" => HasRole(RolesOf(configFile), cmd.role)
    /\ cmd.op = "eject" => ~HasRole(RolesOf(configFile), cmd.role)

-----------------------------------------------------------------------------
(* core/config.ts: two invocations of the tool in one project directory.   *)
(* Each is a process of its own with an empty module map; both use the     *)
(* same qa-director.config.ts and the same temporary file                  *)
(* node_modules/.qa-director/config.mjs. The steps are the file operations *)
(* of addRole and removeRole: esbuild writes the temporary file, import()  *)
(* reads it, unlink removes it, fs.writeFile writes the configuration.     *)

Invocations == {1, 2}

\* the registry operations the two invocations run: addRole(role), or
\* removeRole(role.name)
RegistryOps ==
  {[op |-> o, role |-> MkRole(n, StoragePathOf(AuthDirA, n), <<>>, Null)]
     : o \in {"addRole", "removeRole"}, n \in {RoleUser, RoleAdmin}}

\* the registries the invocations start from: the names are unique
RegistryInits ==
  {<<>>,
   <<MkRole(RoleUser, StoragePathOf(AuthDirA, RoleUser), <<>>, Null)>>,
   <<MkRole(RoleUser, StoragePathOf(AuthDirA, RoleUser), <<>>, Null),
     MkRole(RoleAdmin, StoragePathOf(AuthDirA, RoleAdmin), <<>>, Null)>>}

StartOf(o) == [op |-> o.op, role |-> o.role, pc |-> "build", loaded |-> Null]

\* the configuration an invocation saves after its load: the roles put
\* first instead of pushed (a mutant)
ConfigToSaveRoleFirst(p) ==
  LET Other(r) == r.name # p.role.name
  IN  IF p.op = "addRole"
      THEN [ValueOf(p.loaded) EXCEPT !.roles = <<p.role>> \o SelectSeq(@, Other)]
      ELSE [ValueOf(p.loaded) EXCEPT !.roles = RemoveRoleRoles(@, p.role.name)]

\* the configuration an invocation saves after its load
ConfigToSave(p) ==
  IF p.op = "addRole"
  THEN [ValueOf(p.loaded) EXCEPT !.roles = AddRoleRoles(@, p.role)]
  ELSE [ValueOf(p.loaded) EXCEPT !.roles = RemoveRoleRoles(@, p.role.name)]

InitConcurrent ==
  /\ configFile \in {Some(MkConfig(r, AuthDirA, FALSE)) : r \in RegistryInits}
  /\ moduleCache = NoModule
  /\ calls = <<>>
  /\ nCalls = 0
  /\ envFile = NoFile
  /\ exampleFile = NoFile
  /\ IdleCli
  /\ IdleDetect
  /\ procs \in {[p |-> <<StartOf(a), StartOf(b)>>, saves |-> <<>>]
                  : a \in RegistryOps, b \in RegistryOps}
  /\ tempFile = NoFile

\* loadConfig up to esbuild's build: nothing is built when the configuration
\* file is absent (loadConfig returns null); otherwise the transpiled
\* configuration is written to the temporary file.
Build(i) ==
  /\ procs.p[i].pc = "build"
  /\ IF configFile = NoFile
     THEN /\ procs' = [procs EXCEPT !.p[i].pc = "loaded"]
          /\ UNCHANGED tempFile
     ELSE /\ tempFile' = configFile
          /\ procs' = [procs EXCEPT !.p[i].pc = "import"]
  /\ UNCHANGED <<apiVars, cliVars, detectVars>>

\* import() of the temporary file: it throws when the file is gone, and
\* loadConfig's catch turns that into null.
Import(i) ==
  /\ procs.p[i].pc = "import"
  /\ procs' = [procs EXCEPT !.p[i].pc = "unlink", !.p[i].loaded = tempFile]
  /\ UNCHANGED <<tempFile, apiVars, cliVars, detectVars>>

\* the finally block: unlink, its error ignored
Unlink(i) ==
  /\ procs.p[i].pc = "unlink"
  /\ tempFile' = NoFile
  /\ procs' = [procs EXCEPT !.p[i].pc = "loaded"]
  /\ UNCHANGED <<apiVars, cliVars, detectVars>>

\* the rest of addRole / removeRole: throw on null, else change the roles of
\* the loaded configuration and write the whole document.
Save(i) ==
  /\ procs.p[i].pc = "loaded"
  /\ IF procs.p[i].loaded = Null
     THEN /\ procs' = [procs EXCEPT !.p[i].pc = "failed"]
          /\ UNCHANGED configFile
     ELSE /\ configFile' = Some(ConfigToSave(procs.p[i]))
          /\ procs' = [procs EXCEPT !.p[i].pc = "done", !.saves = Append(@, i)]
  /\ UNCHANGED <<moduleCache, calls, nCalls, envFile, exampleFile, tempFile,
                 cliVars, detectVars>>

NextConcurrent ==
  \/ \E i \in Invocations : Build(i)
  \/ \E i \in Invocations : Import(i)
  \/ \E i \in Invocations : Unlink(i)
  \/ \E i \in Invocations : Save(i)

SpecConcurrent == InitConcurrent /\ [][NextConcurrent]_vars

\* the invocation that saved last
LastSaver == procs.p[procs.saves[Len(procs.saves)]]

\* what addRole / removeRole are to leave of the roles an invocation loaded
RolesExpected(p) ==
  LET Other(r) == r.name # p.role.name
      kept == SelectSeq(ValueOf(p.loaded).roles, Other)
  IN  IF p.op = "addRole" THEN kept \o <<p.role>> ELSE kept

\* C25: with two invocations interleaved step by step, the persisted
\* configuration is, from the first save on, exactly the configuration the
\* invocation that saved last loaded with its own operation applied to it,
\* and the persisted roles have unique names in every state.
C25_LastWriterWins ==
  procs # <<>> =>
    /\ configFile # NoFile
    /\ UniqueNames(ValueOf(configFile).roles)
    /\ procs.saves # <<>> =>
         configFile = Some([ValueOf(LastSaver.loaded)
                              EXCEPT !.roles = RolesExpected(LastSaver)])

\* C25 witness: both invocations added a role and both saved, and the role
\* the first saver added is missing from the persisted configuration.
C25_Witness ==
  /\ procs # <<>>
  /\ Len(procs.saves) = 2
  /\ \A i \in Invocations : procs.p[i].op = "addRole" /\ procs.p[i].pc = "done"
  /\ ~HasRole(ValueOf(configFile).roles, procs.p[procs.saves[1]].role.name)
  /\ HasRole(ValueOf(configFile).roles, procs.p[procs.saves[2]].role.name)

\* C26: login reports "Setup file updated" / "Playwright config updated" only
\* when the agent call returned success, and after a call that returned
\* success=false it prints the warning and the manual instruction and nothing
\* else about that edit.
C26_SuccessMessageOnlyOnSuccess ==
  LoginRan =>
    /\ "updated" \in cmd.setupSaid => cmd.setupEdit = "success"
    /\ "updated" \in cmd.configSaid => cmd.configEdit = "success"
    /\ cmd.setupEdit = "failure" => cmd.setupSaid = {"failedAutomatically", "manual"}
    /\ cmd.configEdit = "failure" => cmd.configSaid = {"failedAutomatically", "manual"}

\* a file has a line that, trimmed, starts with KEY=
HasKeyLine(file, key) ==
  /\ file # NoFile
  /\ \E i \in DOMAIN SplitLines(ValueOf(file)) :
       StartsWith(Trim(SplitLines(ValueOf(file))[i]), key \o <<"=">>)

\* C27: after an executed eject of a role, every variable that a role still
\* in the registry lists and that had a KEY= line in the env file (in its
\* .example companion) before the eject still has one there.
C27_SharedEnvVarsKept ==
  (cmd.op = "eject" /\ cmd.executed) =>
    \A i \in DOMAIN RolesOf(configFile) :
      \A k \in DOMAIN RolesOf(configFile)[i].envVars :
        LET key == RolesOf(configFile)[i].envVars[k]
        IN  /\ HasKeyLine(cmd.before.env, key) => HasKeyLine(envFile, key)
            /\ HasKeyLine(cmd.before.example, key) => HasKeyLine(exampleFile, key)

\* a login of a new role ran to its end
LoginCompleted == LoginRan /\ cmd.handled /\ cmd.exit = 0

\* the role the login registered
RegisteredRole == ValueOf(GetRole(RolesOf(configFile), cmd.role))

\* C28: after a completed login of a new role the persisted role lists
\* variables only when variables were detected and the replacement was
\* accepted, and every variable it lists has a KEY= line in the env file and
\* in its .example companion.
C28_RegistryAndEnvFilesConsistent ==
  LoginCompleted =>
    /\ HasRole(RolesOf(configFile), cmd.role)
    /\ RegisteredRole.envVars # <<>> => (Len(cmd.envVars) > 0 /\ cmd.replaced)
    /\ \A k \in DOMAIN RegisteredRole.envVars :
         /\ HasKeyLine(envFile, RegisteredRole.envVars[k])
         /\ HasKeyLine(exampleFile, RegisteredRole.envVars[k])

\* a login without --refresh for a name the registry already held
LoginOfRegistered ==
  /\ LoginRan /\ ~cmd.refresh
  /\ cmd.before.config # NoFile
  /\ HasRole(RolesBefore, cmd.role)

\* C29: a login without --refresh for a name already in the registry leaves
\* the configuration, both env files, the role folders, the setup script and
\* the Playwright config as they were; of the credential-state files only
\* the one of that role may be recorded again.
C29_LoginOfRegisteredChangesNothing ==
  LoginOfRegistered =>
    /\ configFile = cmd.before.config
    /\ envFile = cmd.before.env
    /\ exampleFile = cmd.before.example
    /\ roleFolders = cmd.before.folders
    /\ setupFile = cmd.before.setup
    /\ pwConfigFile = cmd.before.pwConfig
    /\ \A f \in storageFiles :
         f.path # StoragePathBefore(cmd.role) => f \in cmd.before.storage
    /\ \A f \in cmd.before.storage :
         f.path # StoragePathBefore(cmd.role) => f \in storageFiles

\* C29 witness: such a login recorded the credential state of the role again,
\* with a login flow that holds credentials, and the configuration is as before.
C29_Witness ==
  /\ LoginOfRegistered
  /\ cmd.role = RoleAdmin
  /\ cmd.loginFlow.captured /\ cmd.loginFlow.code # <<>>
  /\ \E f \in storageFiles :
       f.path = StoragePathBefore(RoleAdmin) /\ f \notin cmd.before.storage
  /\ configFile = cmd.before.config

\* C30: in the process that has just called saveConfig(c), loadConfig returns
\* c; and after addRole(a) and addRole(b) with different names on an existing
\* configuration both roles are persisted.
C30_SaveLoadRoundTrip ==
  /\ (calls # <<>> /\ LastCall.op = "saveConfig")
       => LoadConfig(configFile, moduleCache) = Some(LastCall.arg)
  /\ ( /\ Len(calls) = 2
       /\ calls[1].op = "addRole" /\ calls[2].op = "addRole"
       /\ calls[1].before # NoFile
       /\ calls[1].arg.name # calls[2].arg.name )
     => /\ HasRole(RolesOf(configFile), calls[1].arg.name)
        /\ HasRole(RolesOf(configFile), calls[2].arg.name)

====
